---- MODULE Spec2Model ----
(***************************************************************************)
(* Terraform provider for ORY Hydra: the retry/backoff wrapper around the  *)
(* remote calls and the resource reconcilers (OAuth2 client, JWKS).        *)
(*                                                                         *)
(* Strings the code inspects character by character (durations) are        *)
(* sequences of one-character strings.  Durations are kept exactly, as     *)
(* whole milliseconds plus a remainder in nanoseconds.  Clock values of    *)
(* the retry loop are in milliseconds.                                     *)
(***************************************************************************)
EXTENDS Integers, Sequences, FiniteSets, TLC

VARIABLES
    backOff,      \* HydraConfig.backOff: NoPolicy (nil) or the configured policy
    boInterval,   \* ExponentialBackOff.currentInterval (ms)
    boElapsed,    \* time since ExponentialBackOff.startTime (ms), saturating
    kind,         \* resource kind of the running handler
    op,           \* the running handler
    pc,           \* "idle", "retry" (inside retryThrottledHydraAction), "done"
    phase,        \* the remote call the wrapper is retrying
    phases,       \* remote calls the running handler has issued, in order
    calls,        \* invocations of fn by the running wrapper call (saturating)
    firstErr,     \* error of the first invocation of fn, NoErr if it succeeded
    lastErr,      \* error of the latest invocation of fn, NoErr if it succeeded
    wstop,        \* why the wrapper call returned
    wret,         \* what the wrapper call returned
    result,       \* what the handler returned to the host
    id,           \* schema.ResourceData.Id()
    preId,        \* Id() when the running handler was entered
    attrs,        \* the attribute bag of the ResourceData
    preAttrs,     \* the attribute bag when the running handler was entered
    assigned,     \* identifier the remote assigned in the running create
    payload,      \* the resource the latest successful remote call returned
    caller,       \* the wrapper calls of concurrently running handlers
    planned,      \* the host's plan of a replacement (prior state, configuration
                  \* to create once the destroy is done), or empty
    oAuthClient,  \* the local oAuthClient of updateOAuth2ClientResource: empty
                  \* (nil), or the one client it points to
    fun,          \* the codec function applied to arg, "" when none is
    arg,          \* the argument of the codec function
    ret,          \* what the codec function returned, empty before the call
    auth,         \* the authentication block of the provider configuration
    httpClient,   \* what configureHTTPClient returned, empty before the call
    wire          \* the requests the remote has received with their answers

vars == <<backOff, boInterval, boElapsed, kind, op, pc, phase, phases, calls,
          firstErr, lastErr, wstop, wret, result, id, preId, attrs, preAttrs,
          assigned, payload, caller, planned, oAuthClient, fun, arg, ret,
          auth, httpClient, wire>>

\* the variables of the codec functions and of the HTTP client
codecVars == <<fun, arg, ret>>
clientVars == <<auth, httpClient, wire>>

----------------------------------------------------------------------------
(* Bounds of the model *)

MaxCalls == 4        \* the invocation counter saturates here
MaxClock == 4000     \* the elapsed-time clock saturates here (ms)
CallTime == 300      \* the time a remote call takes (ms)

Min(a, b) == IF a < b THEN a ELSE b
Max(a, b) == IF a > b THEN a ELSE b

----------------------------------------------------------------------------
(* time.ParseDuration, as validateDuration and providerConfigure use it *)

Digits == <<"0", "1", "2", "3", "4", "5", "6", "7", "8", "9">>

IsDigit(c) == \E i \in 1..10 : Digits[i] = c

DigitVal(c) == (CHOOSE i \in 1..10 : Digits[i] = c) - 1

\* number of leading characters of s that are digits
RECURSIVE LeadingDigits(_)
LeadingDigits(s) ==
    IF s = <<>> \/ ~IsDigit(Head(s)) THEN 0 ELSE 1 + LeadingDigits(Tail(s))

\* number of leading characters of s that are neither a digit nor "."
RECURSIVE LeadingUnit(_)
LeadingUnit(s) ==
    IF s = <<>> \/ IsDigit(Head(s)) \/ Head(s) = "." THEN 0
    ELSE 1 + LeadingUnit(Tail(s))

RECURSIVE DecimalValue(_, _)
DecimalValue(s, acc) ==
    IF s = <<>> THEN acc ELSE DecimalValue(Tail(s), acc * 10 + DigitVal(Head(s)))

NsPerMs == 1000 * 1000

UnitNames == {<<"n", "s">>, <<"u", "s">>, <<"m", "s">>, <<"s">>, <<"m">>, <<"h">>}

\* v units of u as [ms, ns]
UnitValue(u, v) ==
    CASE u = <<"n", "s">> -> [ms |-> v \div NsPerMs, ns |-> v % NsPerMs]
      [] u = <<"u", "s">> -> [ms |-> v \div 1000, ns |-> (v % 1000) * 1000]
      [] u = <<"m", "s">> -> [ms |-> v, ns |-> 0]
      [] u = <<"s">>      -> [ms |-> v * 1000, ns |-> 0]
      [] u = <<"m">>      -> [ms |-> v * 60000, ns |-> 0]
      [] u = <<"h">>      -> [ms |-> v * 3600000, ns |-> 0]

DurAdd(a, b) ==
    [ms |-> a.ms + b.ms + (a.ns + b.ns) \div NsPerMs, ns |-> (a.ns + b.ns) % NsPerMs]

DurZero == [ms |-> 0, ns |-> 0]

ParseError == [ok |-> FALSE, neg |-> FALSE, d |-> DurZero]

\* d / scale, rounded down (the fraction of a segment: f * unit / scale)
DurDiv(d, scale) ==
    LET ns == (d.ms % scale) * NsPerMs + d.ns
    IN [ms |-> d.ms \div scale + (ns \div scale) \div NsPerMs,
        ns |-> (ns \div scale) % NsPerMs]

\* the loop of ParseDuration over the segments: digits, then optionally a
\* period and digits, then a unit
RECURSIVE ParseSegments(_, _)
ParseSegments(s, acc) ==
    IF s = <<>> THEN [ok |-> TRUE, d |-> acc]
    ELSE LET nd   == LeadingDigits(s)
             r1   == SubSeq(s, nd + 1, Len(s))
             dot  == r1 # <<>> /\ Head(r1) = "."
             r2   == IF dot THEN Tail(r1) ELSE r1
             nf   == IF dot THEN LeadingDigits(r2) ELSE 0
             rest == SubSeq(r2, nf + 1, Len(r2))
             nu   == LeadingUnit(rest)
             u    == SubSeq(rest, 1, nu)
             v    == DecimalValue(SubSeq(s, 1, nd), 0)
             f    == DecimalValue(SubSeq(r2, 1, nf), 0)
             scale == DecimalValue(<<"1">> \o [i \in 1..nf |-> "0"], 0)
         IN IF (nd = 0 /\ nf = 0) \/ nu = 0 \/ u \notin UnitNames
            THEN [ok |-> FALSE, d |-> DurZero]
            ELSE ParseSegments(SubSeq(rest, nu + 1, Len(rest)),
                               DurAdd(DurAdd(acc, UnitValue(u, v)),
                                      DurDiv(UnitValue(u, f), scale)))

ParseDuration(str) ==
    LET signed == str # <<>> /\ Head(str) \in {"-", "+"}
        neg    == str # <<>> /\ Head(str) = "-"
        s      == IF signed THEN Tail(str) ELSE str
    IN IF s = <<"0">> THEN [ok |-> TRUE, neg |-> FALSE, d |-> DurZero]
       ELSE IF s = <<>> THEN ParseError
       ELSE LET p == ParseSegments(s, DurZero)
            IN IF p.ok THEN [ok |-> TRUE, neg |-> neg /\ p.d # DurZero, d |-> p.d]
               ELSE ParseError

\* validateDuration: TRUE when the schema accepts the value (no error reported)
validateDuration(v) == ParseDuration(v).ok

\* a parsed duration in whole milliseconds, signed (the retry clock's unit)
Millis(p) == IF p.neg THEN 0 - p.d.ms - (IF p.d.ns > 0 THEN 1 ELSE 0) ELSE p.d.ms

----------------------------------------------------------------------------
(* encoding/json, as dataToClient (json.Unmarshal into a map), the schema  *)
(* (validation.StringIsJSON) and dataFromClient (json.Marshal of a map)    *)
(* use it.  A JSON text is a sequence of characters; the grammar covered   *)
(* is objects, arrays, strings without escapes, unsigned integers and the  *)
(* three literals, without white space.  A decoded value is tagged with    *)
(* its Go type; a map is the sequence of its <<key, value>> entries in     *)
(* ascending key order (the order json.Marshal writes them in).            *)

Alphabet == Digits \o <<"a", "b", "c", "d", "e", "f", "g", "h", "i", "j", "k", "l",
                        "m", "n", "o", "p", "q", "r", "s", "t", "u", "v", "w", "x",
                        "y", "z">>

CharRank(c) == CHOOSE i \in 1..Len(Alphabet) : Alphabet[i] = c

\* a < b for strings, byte-wise
RECURSIVE LessKey(_, _)
LessKey(a, b) ==
    IF b = <<>> THEN FALSE
    ELSE IF a = <<>> THEN TRUE
    ELSE IF Head(a) = Head(b) THEN LessKey(Tail(a), Tail(b))
    ELSE CharRank(Head(a)) < CharRank(Head(b))

\* s: the characters of a string, number or literal; m: the entries of a
\* map; a: the elements of an array
JString(s) == [t |-> "string", s |-> s, m |-> <<>>, a |-> <<>>]
JNumber(s) == [t |-> "float64", s |-> s, m |-> <<>>, a |-> <<>>]
JBool(s) == [t |-> "bool", s |-> s, m |-> <<>>, a |-> <<>>]
JNull == [t |-> "nil", s |-> <<>>, m |-> <<>>, a |-> <<>>]
JArray(a) == [t |-> "[]interface{}", s |-> <<>>, m |-> <<>>, a |-> a]
JObject(m) == [t |-> "map[string]interface{}", s |-> <<>>, m |-> m, a |-> <<>>]

\* m[k] = v on a map
RECURSIVE MapPut(_, _, _)
MapPut(m, k, v) ==
    IF m = <<>> THEN <<<<k, v>>>>
    ELSE IF Head(m)[1] = k THEN <<<<k, v>>>> \o Tail(m)
    ELSE IF LessKey(k, Head(m)[1]) THEN <<<<k, v>>>> \o m
    ELSE <<Head(m)>> \o MapPut(Tail(m), k, v)

JFail == [ok |-> FALSE, v |-> JNull, rest |-> <<>>]

IsPrefix(p, s) == Len(p) <= Len(s) /\ SubSeq(s, 1, Len(p)) = p

\* number of characters of s before the first quotation mark
RECURSIVE UntilQuote(_)
UntilQuote(s) == IF s = <<>> \/ Head(s) = "\"" THEN 0 ELSE 1 + UntilQuote(Tail(s))

\* s begins after the opening quotation mark
ParseJString(s) ==
    LET n == UntilQuote(s)
    IN IF n = Len(s) THEN JFail
       ELSE [ok |-> TRUE, v |-> JString(SubSeq(s, 1, n)), rest |-> SubSeq(s, n + 2, Len(s))]

ParseJNumber(s) ==
    LET n == LeadingDigits(s)
    IN IF n = 0 \/ (n > 1 /\ Head(s) = "0") THEN JFail
       ELSE [ok |-> TRUE, v |-> JNumber(SubSeq(s, 1, n)), rest |-> SubSeq(s, n + 1, Len(s))]

JLiterals == {<<"t", "r", "u", "e">>, <<"f", "a", "l", "s", "e">>, <<"n", "u", "l", "l">>}

ParseJLiteral(s) ==
    IF \E l \in JLiterals : IsPrefix(l, s)
    THEN LET l == CHOOSE x \in JLiterals : IsPrefix(x, s)
         IN [ok |-> TRUE,
             v |-> IF l = <<"n", "u", "l", "l">> THEN JNull ELSE JBool(l),
             rest |-> SubSeq(s, Len(l) + 1, Len(s))]
    ELSE JFail

RECURSIVE ParseJValue(_)
RECURSIVE ParseJMembers(_, _)
RECURSIVE ParseJElements(_, _)

\* the members of an object after "{" or ",": "key":value , ... }
ParseJMembers(s, acc) ==
    IF s = <<>> \/ Head(s) # "\"" THEN JFail
    ELSE LET k == ParseJString(Tail(s))
         IN IF ~k.ok \/ k.rest = <<>> \/ Head(k.rest) # ":" THEN JFail
            ELSE LET e == ParseJValue(Tail(k.rest))
                 IN IF ~e.ok \/ e.rest = <<>> THEN JFail
                    ELSE IF Head(e.rest) = ","
                         THEN ParseJMembers(Tail(e.rest), MapPut(acc, k.v.s, e.v))
                    ELSE IF Head(e.rest) = "}"
                         THEN [ok |-> TRUE, v |-> JObject(MapPut(acc, k.v.s, e.v)),
                               rest |-> Tail(e.rest)]
                    ELSE JFail

\* the elements of an array after "[" or ",": value , ... ]
ParseJElements(s, acc) ==
    LET e == ParseJValue(s)
    IN IF ~e.ok \/ e.rest = <<>> THEN JFail
       ELSE IF Head(e.rest) = "," THEN ParseJElements(Tail(e.rest), Append(acc, e.v))
       ELSE IF Head(e.rest) = "]"
            THEN [ok |-> TRUE, v |-> JArray(Append(acc, e.v)), rest |-> Tail(e.rest)]
       ELSE JFail

ParseJValue(s) ==
    IF s = <<>> THEN JFail
    ELSE IF Head(s) = "{"
         THEN IF Len(s) >= 2 /\ s[2] = "}"
              THEN [ok |-> TRUE, v |-> JObject(<<>>), rest |-> SubSeq(s, 3, Len(s))]
              ELSE ParseJMembers(Tail(s), <<>>)
    ELSE IF Head(s) = "["
         THEN IF Len(s) >= 2 /\ s[2] = "]"
              THEN [ok |-> TRUE, v |-> JArray(<<>>), rest |-> SubSeq(s, 3, Len(s))]
              ELSE ParseJElements(Tail(s), <<>>)
    ELSE IF Head(s) = "\"" THEN ParseJString(Tail(s))
    ELSE IF IsDigit(Head(s)) THEN ParseJNumber(s)
    ELSE ParseJLiteral(s)

\* json.Unmarshal(text, &v) with v an interface{}: the value, or a syntax error
Unmarshal(text) ==
    LET p == ParseJValue(text)
    IN IF p.ok /\ p.rest = <<>> THEN [ok |-> TRUE, v |-> p.v] ELSE [ok |-> FALSE, v |-> JNull]

\* json.Unmarshal(text, &metadata) with metadata a nil map[string]interface{}:
\* err and the map afterwards (null leaves the nil map as it is)
UnmarshalMap(text) ==
    LET p == Unmarshal(text)
    IN IF ~p.ok THEN [err |-> "syntax", isnil |-> TRUE, m |-> <<>>]
       ELSE IF p.v.t = "map[string]interface{}"
            THEN [err |-> "", isnil |-> FALSE, m |-> p.v.m]
       ELSE IF p.v.t = "nil" THEN [err |-> "", isnil |-> TRUE, m |-> <<>>]
       ELSE [err |-> "type", isnil |-> TRUE, m |-> <<>>]

\* validation.StringIsJSON: TRUE when the schema accepts the value
StringIsJSON(text) == text = <<>> \/ Unmarshal(text).ok

RECURSIVE Marshal(_)
RECURSIVE MarshalMembers(_)
RECURSIVE MarshalElements(_)

MarshalMembers(m) ==
    IF m = <<>> THEN <<>>
    ELSE <<"\"">> \o Head(m)[1] \o <<"\"", ":">> \o Marshal(Head(m)[2])
         \o (IF Len(m) > 1 THEN <<",">> ELSE <<>>) \o MarshalMembers(Tail(m))

MarshalElements(s) ==
    IF s = <<>> THEN <<>>
    ELSE Marshal(Head(s)) \o (IF Len(s) > 1 THEN <<",">> ELSE <<>>)
         \o MarshalElements(Tail(s))

\* json.Marshal of a decoded value
Marshal(x) ==
    CASE x.t = "string" -> <<"\"">> \o x.s \o <<"\"">>
      [] x.t = "float64" -> x.s
      [] x.t = "bool" -> x.s
      [] x.t = "nil" -> <<"n", "u", "l", "l">>
      [] x.t = "[]interface{}" -> <<"[">> \o MarshalElements(x.a) \o <<"]">>
      [] x.t = "map[string]interface{}" -> <<"{">> \o MarshalMembers(x.m) \o <<"}">>

----------------------------------------------------------------------------
(* dataToJWK and dataFromJWK.  A key of the key or jwk attribute is a map   *)
(* of the schema's members: a string each ("" when not given) and the list *)
(* x5c.  A hydra.JsonWebKey has alg, kid, use and kty as strings, the      *)
(* optional members as pointers (empty: nil, else the one string pointed   *)
(* to) and x5c as a slice.                                                 *)

JwkOptional == {"crv", "d", "dp", "dq", "e", "k", "n", "p", "q", "qi", "x", "y"}

dataToJWK(data) ==
    [f \in DOMAIN data |->
        IF f \in JwkOptional
        THEN IF data[f] # "" THEN <<data[f]>> ELSE <<>>
        ELSE data[f]]

\* mutant: the certificate chain is left out of the map
dataFromJWK_NoX5c(jwk) ==
    [f \in DOMAIN jwk |->
        IF f \in JwkOptional
        THEN IF jwk[f] = <<>> THEN "" ELSE jwk[f][1]
        ELSE IF f = "x5c" THEN <<>> ELSE jwk[f]]

\* dataFromJWK, as data.Set stores the map: a nil pointer leaves the member
\* empty, any other pointer stores the string it points to
dataFromJWK(jwk) ==
    [f \in DOMAIN jwk |->
        IF f \in JwkOptional
        THEN IF jwk[f] = <<>> THEN "" ELSE jwk[f][1]
        ELSE jwk[f]]

\* the key kid of a configuration, with the optional members of set given
\* (each its own value) and the certificate chain x5c
KeyData(kid, set, x5c) ==
    [f \in {"alg", "kid", "use", "kty", "x5c"} \cup JwkOptional |->
        CASE f = "alg" -> "RS256"
          [] f = "kid" -> kid
          [] f = "use" -> "sig"
          [] f = "kty" -> "RSA"
          [] f = "x5c" -> x5c
          [] OTHER -> IF f \in set THEN f ELSE ""]

\* two keys of the remote
Jwk1 == dataToJWK(KeyData("k1", {"e", "n"}, <<>>))
Jwk2 == dataToJWK(KeyData("k2", {"crv", "x", "y"}, <<"c1">>))

----------------------------------------------------------------------------
(* The retry block of the provider configuration and providerConfigure *)

DurationStrings == {<<"0", "s">>, <<"1", "s">>, <<"2", "0", "0", "0", "m", "s">>}

\* values a user may write for a duration attribute, valid or not
RawDurationStrings == DurationStrings \cup {<<>>, <<"1">>, <<"s">>, <<"1", "x">>}

RandomizationFactors == {0, 50}     \* percent

\* retry blocks that pass the schema's validation (ValidateFunc: validateDuration)
RetryBlocks ==
    {r \in [present : BOOLEAN, enabled : BOOLEAN,
            max_elapsed_time : RawDurationStrings,
            max_interval : {<<"1", "s">>, <<"0", "s">>},
            randomization_factor : RandomizationFactors] :
        /\ validateDuration(r.max_elapsed_time)
        /\ validateDuration(r.max_interval)
        /\ (~r.present =>
               /\ ~r.enabled
               /\ r.max_elapsed_time = <<"0", "s">>
               /\ r.max_interval = <<"0", "s">>
               /\ r.randomization_factor = 0)}

NoPolicy == [set |-> FALSE, MaxElapsedTime |-> ParseDuration(<<"0">>),
             MaxInterval |-> 0, RandomizationFactor |-> 0]

InitialInterval == 500      \* backoff.DefaultInitialInterval (ms)
MultiplierNum == 3          \* backoff.DefaultMultiplier = 1.5 = 3/2
MultiplierDen == 2
Stop == -1                  \* backoff.Stop

\* the backOff field providerConfigure stores in HydraConfig
providerConfigure(retry) ==
    IF retry.present /\ retry.enabled
    THEN [set |-> TRUE,
          MaxElapsedTime |-> ParseDuration(retry.max_elapsed_time),
          MaxInterval |-> Millis(ParseDuration(retry.max_interval)),
          RandomizationFactor |-> retry.randomization_factor]
    ELSE NoPolicy

----------------------------------------------------------------------------
(* backoff.ExponentialBackOff, as backoff.Retry drives it *)

\* getRandomValueFromInterval, the random number taken from {0, 1/2, 1}
Randoms == {0, 1, 2}

getRandomValueFromInterval(rf, rnd, cur) ==
    IF rf = 0 THEN cur
    ELSE LET delta == (rf * cur) \div 100
         IN (cur - delta) + (rnd * delta)

incrementCurrentInterval(b, cur) ==
    IF cur * MultiplierNum >= b.MaxInterval * MultiplierDen
    THEN b.MaxInterval
    ELSE (cur * MultiplierNum) \div MultiplierDen

\* NextBackOff: the delay before the next attempt, or Stop
NextBackOff(b, cur, elapsed, rnd) ==
    LET next == getRandomValueFromInterval(b.RandomizationFactor, rnd, cur)
    IN IF b.MaxElapsedTime.d # DurZero /\ elapsed + next > Millis(b.MaxElapsedTime)
       THEN Stop
       ELSE next

----------------------------------------------------------------------------
(* Responses of the remote admin API *)

StatusTooManyRequests == 429    \* http.StatusTooManyRequests
StatusUnauthorized == 401       \* the status_code readOAuth2ClientResource looks for

\* HTTP statuses of failing responses; 0 stands for no response at all
\* (transport failure: fn returns a nil *http.Response)
FailStatuses == {0, StatusUnauthorized, 404, StatusTooManyRequests, 500}

\* an error as fn returns it: the HTTP status of the response it came with
\* (0: no response), the status_code of the decoded ErrorOAuth2 model
\* (0: no model), and the invocation that produced it
NoErr == [what |-> "nil", http |-> 0, code |-> 0, seq |-> 0]

DecodeErr == [what |-> "decode", http |-> 0, code |-> 0, seq |-> 0]

ApiErr(r, n) == [what |-> "api", http |-> r.http, code |-> r.code, seq |-> n]

\* Shapes of the jwks field of a remote OAuth2 client
JwksShapes == {"absent", "notobject", "undecodable", "object"}

ClientIds == {"c1", "c2"}
Names == {"set1", "set2"}
KeyLists == {<<>>, <<Jwk1>>, <<Jwk1, Jwk2>>}

\* a nil pointer field of hydra.OAuth2Client: the response has no such member
Nil == "(nil)"

\* ClientSecret of a response: absent, present and empty, present
Secrets == {Nil, "", "s1"}

\* client_name, skip_consent and scope are pointers: empty (nil), or the one
\* value pointed to; a scope is a string of characters
NoBody == [client_id |-> "", client_secret |-> Nil, jwks |-> "absent",
           owner |-> "", keys |-> <<>>, metadata |-> JNull,
           client_name |-> <<>>, skip_consent |-> <<>>, scope |-> <<>>]

\* Failing responses.  A response that carries a decodable ErrorOAuth2 body
\* reports in status_code the status it was sent with; code 0 is a body that
\* is no ErrorOAuth2 (a gateway's or proxy's answer), or no response at all.
ErrorResponses ==
    {r \in [ok : {FALSE}, http : FailStatuses, code : {0} \cup FailStatuses,
            body : {NoBody}] : r.code \in {0, r.http}}

\* Successful responses to the remote call ph issued for identifier rid; the
\* handlers discard the key set the generate and set calls return
OkResponses(ph, rid) ==
    CASE ph = "createClient" ->
           {[ok |-> TRUE, http |-> 200, code |-> 0,
             body |-> [NoBody EXCEPT !.client_id = c, !.client_secret = sec,
                                      !.jwks = j, !.owner = "o1", !.keys = <<Jwk1>>]] :
               c \in ClientIds, sec \in Secrets, j \in JwksShapes}
      [] ph \in {"getClient", "setClient"} ->
           {[ok |-> TRUE, http |-> 200, code |-> 0,
             body |-> [NoBody EXCEPT !.client_id = rid, !.client_secret = sec,
                                      !.jwks = j, !.owner = "o1", !.keys = <<Jwk1>>]] :
               sec \in Secrets, j \in JwksShapes}
      [] ph = "getJwks" ->
           {[ok |-> TRUE, http |-> 200, code |-> 0,
             body |-> [NoBody EXCEPT !.keys = ks]] : ks \in KeyLists}
      [] OTHER ->
           {[ok |-> TRUE, http |-> 200, code |-> 0, body |-> NoBody]}

Responses(ph, rid) == ErrorResponses \cup OkResponses(ph, rid)

----------------------------------------------------------------------------
(* retryThrottledHydraAction: one invocation of fn and what follows it *)

\* mutant: every error is handed back to backoff.Retry as transient
retryThrottledHydraAction_RetryAll(b, cur, elapsed, r, n, rnd) ==
    LET err == IF r.ok THEN NoErr ELSE ApiErr(r, n)
    IN IF ~b.set
       THEN [done |-> TRUE, ret |-> err, stop |-> "nopolicy",
             interval |-> cur, sleep |-> 0]
       ELSE IF err = NoErr
       THEN [done |-> TRUE, ret |-> NoErr, stop |-> "success",
             interval |-> cur, sleep |-> 0]
       ELSE LET next == NextBackOff(b, cur, elapsed, rnd)
            IN [done |-> next = Stop, ret |-> err,
                stop |-> IF next = Stop THEN "ceiling" ELSE "",
                interval |-> incrementCurrentInterval(b, cur),
                sleep |-> IF next = Stop THEN 0 ELSE Max(next, 0)]

\* mutant: the nil check is missing, the retry loop runs on the zero policy
retryThrottledHydraAction_NoNilCheck(b, cur, elapsed, r, n, rnd) ==
    LET err == IF r.ok THEN NoErr ELSE ApiErr(r, n)
    IN IF err = NoErr
       THEN [done |-> TRUE, ret |-> NoErr, stop |-> "success",
             interval |-> cur, sleep |-> 0]
       ELSE IF ~(r.http # 0 /\ r.http = StatusTooManyRequests)
       THEN [done |-> TRUE, ret |-> err, stop |-> "permanent",
             interval |-> cur, sleep |-> 0]
       ELSE LET next == NextBackOff(b, cur, elapsed, rnd)
            IN [done |-> next = Stop, ret |-> err,
                stop |-> IF next = Stop THEN "ceiling" ELSE "",
                interval |-> incrementCurrentInterval(b, cur),
                sleep |-> IF next = Stop THEN 0 ELSE Max(next, 0)]

\* mutant: at the ceiling the wrapper returns nil instead of the last error
retryThrottledHydraAction_MaskAtCeiling(b, cur, elapsed, r, n, rnd) ==
    LET err == IF r.ok THEN NoErr ELSE ApiErr(r, n)
    IN IF ~b.set
       THEN [done |-> TRUE, ret |-> err, stop |-> "nopolicy",
             interval |-> cur, sleep |-> 0]
       ELSE IF err = NoErr
       THEN [done |-> TRUE, ret |-> NoErr, stop |-> "success",
             interval |-> cur, sleep |-> 0]
       ELSE IF ~(r.http # 0 /\ r.http = StatusTooManyRequests)
       THEN [done |-> TRUE, ret |-> err, stop |-> "permanent",
             interval |-> cur, sleep |-> 0]
       ELSE LET next == NextBackOff(b, cur, elapsed, rnd)
            IN [done |-> next = Stop,
                ret |-> IF next = Stop THEN NoErr ELSE err,
                stop |-> IF next = Stop THEN "ceiling" ELSE "",
                interval |-> incrementCurrentInterval(b, cur),
                sleep |-> IF next = Stop THEN 0 ELSE Max(next, 0)]

\* mutant: a permanent error comes back as the backoff.PermanentError that
\* wraps it
retryThrottledHydraAction_WrapPermanent(b, cur, elapsed, r, n, rnd) ==
    LET err == IF r.ok THEN NoErr ELSE ApiErr(r, n)
    IN IF ~b.set
       THEN [done |-> TRUE, ret |-> err, stop |-> "nopolicy",
             interval |-> cur, sleep |-> 0]
       ELSE IF err = NoErr
       THEN [done |-> TRUE, ret |-> NoErr, stop |-> "success",
             interval |-> cur, sleep |-> 0]
       ELSE IF ~(r.http # 0 /\ r.http = StatusTooManyRequests)
       THEN [done |-> TRUE, ret |-> [err EXCEPT !.what = "permanent"],
             stop |-> "permanent", interval |-> cur, sleep |-> 0]
       ELSE LET next == NextBackOff(b, cur, elapsed, rnd)
            IN [done |-> next = Stop, ret |-> err,
                stop |-> IF next = Stop THEN "ceiling" ELSE "",
                interval |-> incrementCurrentInterval(b, cur),
                sleep |-> IF next = Stop THEN 0 ELSE Max(next, 0)]

\* b: the policy, cur: currentInterval, elapsed: time since Reset when fn
\* has returned, r: the response fn got, n: the invocation's number,
\* rnd: the random number NextBackOff draws
retryThrottledHydraAction(b, cur, elapsed, r, n, rnd) ==
    LET err == IF r.ok THEN NoErr ELSE ApiErr(r, n)
    IN IF ~b.set
       THEN [done |-> TRUE, ret |-> err, stop |-> "nopolicy",
             interval |-> cur, sleep |-> 0]
       ELSE IF err = NoErr
       THEN [done |-> TRUE, ret |-> NoErr, stop |-> "success",
             interval |-> cur, sleep |-> 0]
       ELSE IF ~(r.http # 0 /\ r.http = StatusTooManyRequests)
       THEN [done |-> TRUE, ret |-> err, stop |-> "permanent",
             interval |-> cur, sleep |-> 0]
       ELSE LET next == NextBackOff(b, cur, elapsed, rnd)
            IN [done |-> next = Stop, ret |-> err,
                stop |-> IF next = Stop THEN "ceiling" ELSE "",
                interval |-> incrementCurrentInterval(b, cur),
                sleep |-> IF next = Stop THEN 0 ELSE Max(next, 0)]

----------------------------------------------------------------------------
(* The resource handlers.  d is the ResourceData, [id, attrs]; w is what   *)
(* retryThrottledHydraAction returned; body is the decoded response.  A    *)
(* handler either returns a result to the host or goes on to its next      *)
(* remote call.                                                            *)

NoResult == [kind |-> "none", err |-> NoErr]
OkResult == [kind |-> "ok", err |-> NoErr]
PanicResult == [kind |-> "panic", err |-> NoErr]
ErrResult(e) == [kind |-> "err", err |-> e]     \* diag.FromErr(e), e # nil

Return(d, res) == [id |-> d.id, attrs |-> d.attrs, next |-> "", result |-> res]
Continue(d, ph) == [id |-> d.id, attrs |-> d.attrs, next |-> ph, result |-> NoResult]

\* the attributes at their zero values; generator is a list of at most one
\* block, metadata a map, metadata_json a text, scopes a list of strings of
\* characters
EmptyAttrs == [name |-> "", generator |-> <<>>, client_id |-> "",
               client_secret |-> "", jwk |-> <<>>, owner |-> "", key |-> <<>>,
               metadata |-> <<>>, metadata_json |-> <<>>, client_name |-> "",
               skip_consent |-> FALSE, scopes |-> <<>>]

\* strings.Split(s, sep), sep one character
RECURSIVE Split(_, _)
Split(s, sep) ==
    IF \E i \in 1..Len(s) : s[i] = sep
    THEN LET n == CHOOSE i \in 1..Len(s) :
                      s[i] = sep /\ \A j \in 1..(i - 1) : s[j] # sep
         IN <<SubSeq(s, 1, n - 1)>> \o Split(SubSeq(s, n + 1, Len(s)), sep)
    ELSE <<s>>

\* strings.Join(list, sep)
RECURSIVE Join(_, _)
Join(list, sep) ==
    IF list = <<>> THEN <<>>
    ELSE IF Len(list) = 1 THEN list[1]
    ELSE list[1] \o <<sep>> \o Join(Tail(list), sep)

\* the scopes branch of dataFromClient; scope is oAuthClient.Scope
scopesFromClient(scope) == IF scope = <<>> THEN <<>> ELSE Split(scope[1], " ")

\* the scopes branch of dataToClient: client.Scope
scopesToClient(scopes) == IF Len(scopes) > 0 THEN <<Join(scopes, " ")>> ELSE <<>>

\* dataFromJWKS(data, jwks, key): each key through dataFromJWK, in order
dataFromJWKS(a, keys, key) ==
    LET list == [i \in 1..Len(keys) |-> dataFromJWK(keys[i])]
    IN IF key = "jwk" THEN [a EXCEPT !.jwk = list] ELSE [a EXCEPT !.key = list]

\* dataToJWKS(data, key): each key of a list attribute through dataToJWK
dataToJWKS(a, key) ==
    LET list == IF key = "jwk" THEN a.jwk ELSE a.key
    IN [i \in 1..Len(list) |-> dataToJWK(list[i])]

\* the loop of dataFromClient over the metadata map: some value is no string
useMetadataJSON(metadata) ==
    \E i \in 1..Len(metadata) : metadata[i][2].t # "string"

\* mutant: the JSON branch leaves the metadata attribute as it was
metadataFromClient_KeepsMap(a, md) ==
    IF md.t = "map[string]interface{}"
    THEN IF useMetadataJSON(md.m)
         THEN [a EXCEPT !.metadata_json = Marshal(md)]
         ELSE [a EXCEPT !.metadata = md.m, !.metadata_json = <<>>]
    ELSE [a EXCEPT !.metadata = <<>>, !.metadata_json = <<>>]

\* the metadata branch of dataFromClient; md is oAuthClient.Metadata
metadataFromClient(a, md) ==
    IF md.t = "map[string]interface{}"
    THEN IF useMetadataJSON(md.m)
         THEN [a EXCEPT !.metadata_json = Marshal(md), !.metadata = <<>>]
         ELSE [a EXCEPT !.metadata = md.m, !.metadata_json = <<>>]
    ELSE [a EXCEPT !.metadata = <<>>, !.metadata_json = <<>>]

\* mutant: the metadata attribute is not looked at
metadataToClient_JSONOnly(a) ==
    IF a.metadata_json # <<>>
    THEN LET u == UnmarshalMap(a.metadata_json)
         IN IF u.err = "" /\ ~u.isnil THEN JObject(u.m) ELSE JNull
    ELSE JNull

\* the metadata branch of dataToClient: client.Metadata as the request
\* carries it (JNull: the member is absent or null)
metadataToClient(a) ==
    IF a.metadata_json # <<>>
    THEN LET u == UnmarshalMap(a.metadata_json)
         IN IF u.err = "" /\ ~u.isnil THEN JObject(u.m) ELSE JNull
    ELSE IF a.metadata # <<>> THEN JObject(a.metadata)
    ELSE JNull

\* dataToClient: the OAuth2Client sent with a create or set call; a field the
\* code leaves nil is Nil (jwks: the empty list; client_name, skip_consent
\* and scope: the empty pointer).  data.GetOk reports a value that is not
\* the zero value of its type; SetClientName takes what data.Get returns
dataToClient(a) ==
    [client_id |-> a.client_id,
     client_name |-> <<a.client_name>>,
     client_secret |-> IF a.client_secret # "" THEN a.client_secret ELSE Nil,
     jwks |-> dataToJWKS(a, "jwk"),
     metadata |-> metadataToClient(a),
     owner |-> IF a.owner # "" THEN a.owner ELSE Nil,
     skip_consent |-> IF a.skip_consent # FALSE THEN <<a.skip_consent>> ELSE <<>>,
     scope |-> scopesToClient(a.scopes)]

\* dataToJWKGeneratorRequest: hydra.NewCreateJsonWebKeySet(alg, kid, use)
dataToJWKGeneratorRequest(generator) ==
    [alg |-> generator.alg, kid |-> generator.kid, use |-> generator.use]

\* mutant: the identifier is set only once every attribute has been decoded
dataFromClient_SetIdLast(d, body) ==
    LET a1 == [d.attrs EXCEPT !.client_id = body.client_id,
                              !.client_name = IF body.client_name = <<>> THEN ""
                                              ELSE body.client_name[1]]
        a2 == IF body.client_secret # Nil
              THEN [a1 EXCEPT !.client_secret = body.client_secret] ELSE a1
        d2 == [id |-> d.id, attrs |-> a2]
    IN CASE body.jwks \in {"absent", "notobject"} -> Return(d2, PanicResult)
         [] body.jwks = "undecodable" -> Return(d2, ErrResult(DecodeErr))
         [] OTHER ->
              Return([id |-> body.client_id,
                      attrs |-> [metadataFromClient(dataFromJWKS(a2, body.keys, "jwk"),
                                                    body.metadata)
                                    EXCEPT !.owner = body.owner,
                                           !.skip_consent =
                                               IF body.skip_consent = <<>> THEN FALSE
                                               ELSE body.skip_consent[1],
                                           !.scopes = scopesFromClient(body.scope)]],
                     OkResult)

\* dataFromClient: SetId first, then the attributes in the order of the code;
\* the type assertion on Jwks panics and mapstructure.Decode may fail after
\* the identifier and the earlier attributes have been set
dataFromClient(d, body) ==
    LET a1 == [d.attrs EXCEPT !.client_id = body.client_id,
                              !.client_name = IF body.client_name = <<>> THEN ""
                                              ELSE body.client_name[1]]
        a2 == IF body.client_secret # Nil
              THEN [a1 EXCEPT !.client_secret = body.client_secret] ELSE a1
        d2 == [id |-> body.client_id, attrs |-> a2]
    IN CASE body.jwks \in {"absent", "notobject"} -> Return(d2, PanicResult)
         [] body.jwks = "undecodable" -> Return(d2, ErrResult(DecodeErr))
         [] OTHER ->
              Return([d2 EXCEPT !.attrs =
                          [metadataFromClient(dataFromJWKS(a2, body.keys, "jwk"),
                                              body.metadata)
                              EXCEPT !.owner = body.owner,
                                           !.skip_consent =
                                               IF body.skip_consent = <<>> THEN FALSE
                                               ELSE body.skip_consent[1],
                                           !.scopes = scopesFromClient(body.scope)]],
                     OkResult)

createOAuth2ClientResource(d, w, body) ==
    IF w # NoErr THEN Return(d, ErrResult(w)) ELSE dataFromClient(d, body)

\* mutant: the status_code is not compared, any API error with a model counts
\* as resource-gone
readOAuth2ClientResource_AnyStatusGone(d, w, body) ==
    IF w # NoErr
    THEN IF w.what = "api" /\ w.code # 0
         THEN Return([d EXCEPT !.id = ""], OkResult)
         ELSE Return(d, ErrResult(w))
    ELSE dataFromClient(d, body)

\* mutant: the resource-gone branch is missing, every error is returned
readOAuth2ClientResource_NeverGone(d, w, body) ==
    IF w # NoErr THEN Return(d, ErrResult(w)) ELSE dataFromClient(d, body)

readOAuth2ClientResource(d, w, body) ==
    IF w # NoErr
    THEN IF w.what = "api" /\ w.code # 0 /\ w.code = StatusUnauthorized
         THEN Return([d EXCEPT !.id = ""], OkResult)
         ELSE Return(d, ErrResult(w))
    ELSE dataFromClient(d, body)

updateOAuth2ClientResource(d, w, body) ==
    IF w # NoErr THEN Return(d, ErrResult(w)) ELSE dataFromClient(d, body)

deleteOAuth2ClientResource(d, w) ==
    IF w # NoErr THEN Return(d, ErrResult(w)) ELSE Return(d, OkResult)

readJWKSResource(d, w, body) ==
    IF w # NoErr THEN Return(d, ErrResult(w))
    ELSE Return([d EXCEPT !.attrs = dataFromJWKS(d.attrs, body.keys, "key")], OkResult)

\* mutant: the generate path returns without the follow-up read
generateJWKSResource_NoRead(d, w) ==
    IF w # NoErr THEN Return(d, ErrResult(w))
    ELSE Return([d EXCEPT !.id = d.attrs.name], OkResult)

\* after the generate call: SetId(setName), then readJWKSResource
generateJWKSResource(d, w) ==
    IF w # NoErr THEN Return(d, ErrResult(w))
    ELSE Continue([d EXCEPT !.id = d.attrs.name], "getJwks")

\* after the set call: SetId(setName), then readJWKSResource
updateJWKSResource(d, w) ==
    IF w # NoErr THEN Return(d, ErrResult(w))
    ELSE Continue([d EXCEPT !.id = d.attrs.name], "getJwks")

deleteJWKSResource(d, w) ==
    IF w # NoErr THEN Return(d, ErrResult(w)) ELSE Return(d, OkResult)

\* mutant: the generator block is not looked at
createJWKSResource_AlwaysSet(a) == "setJwks"

\* createJWKSResource: the remote call a JWKS create starts with
createJWKSResource(a) == IF a.generator # <<>> THEN "generateJwks" ELSE "setJwks"

\* the remote call a handler starts with
FirstCall(k, o, a) ==
    CASE k = "client" /\ o = "create" -> "createClient"
      [] k = "client" /\ o \in {"read", "import"} -> "getClient"
      [] k = "client" /\ o = "update" -> "setClient"
      [] k = "client" /\ o = "delete" -> "deleteClient"
      [] k = "jwks" /\ o = "create"   -> createJWKSResource(a)
      [] k = "jwks" /\ o \in {"read", "import"} -> "getJwks"
      [] k = "jwks" /\ o = "update"   -> "setJwks"
      [] k = "jwks" /\ o = "delete"   -> "deleteJwks"

\* the identifier a remote call is addressed to
CallTarget(ph, d) ==
    IF ph \in {"generateJwks", "setJwks", "deleteJwks"} THEN d.attrs.name ELSE d.id

\* what a remote call sends in its body
NoRequest == [keys |-> <<>>]

Request(ph, d) ==
    CASE ph \in {"createClient", "setClient"} -> dataToClient(d.attrs)
      [] ph = "generateJwks" -> dataToJWKGeneratorRequest(d.attrs.generator[1])
      [] ph = "setJwks" -> [keys |-> dataToJWKS(d.attrs, "key")]
      [] OTHER -> NoRequest

\* the record of a remote call: the endpoint, the identifier in its path and
\* the body sent
Call(ph, d) == [call |-> ph, target |-> CallTarget(ph, d), req |-> Request(ph, d)]

\* the code that runs when the wrapper call for ph has returned w
AfterCall(ph, d, w, body) ==
    CASE ph = "createClient" -> createOAuth2ClientResource(d, w, body)
      [] ph = "getClient"    -> readOAuth2ClientResource(d, w, body)
      [] ph = "setClient"    -> updateOAuth2ClientResource(d, w, body)
      [] ph = "deleteClient" -> deleteOAuth2ClientResource(d, w)
      [] ph = "generateJwks" -> generateJWKSResource(d, w)
      [] ph = "setJwks"      -> updateJWKSResource(d, w)
      [] ph = "getJwks"      -> readJWKSResource(d, w, body)
      [] ph = "deleteJwks"   -> deleteJWKSResource(d, w)

----------------------------------------------------------------------------
(* The state machine *)

Kinds == {"client", "jwks"}

\* a generator block of a JWKS
Generator(use, keepers) == [alg |-> "RS256", kid |-> "kid1", use |-> use, keepers |-> keepers]

\* handlers that run side by side on the one HydraConfig
Callers == {1, 2}

\* a wrapper call of a concurrent handler: where it is, the time until its
\* fn or its sleep ends, and the time since it entered the wrapper
NoCaller == [at |-> "idle", wait |-> 0, age |-> 0]

\* no authentication block: each sub-block is a list of at most one block
NoAuth == [basic |-> <<>>, http_header |-> <<>>, oauth2 |-> <<>>, tls |-> <<>>]

\* no codec function is applied; the HTTP client is not looked at
CodecIdle == fun = "" /\ arg = <<>> /\ ret = <<>>
ClientIdle == auth = NoAuth /\ httpClient = <<>> /\ wire = <<>>

\* the handlers' state once the provider is configured
HandlersInit ==
    /\ backOff \in {providerConfigure(r) : r \in RetryBlocks}
    /\ boInterval = 0
    /\ boElapsed = 0
    /\ kind = "client"
    /\ op = "none"
    /\ pc = "idle"
    /\ phase = ""
    /\ phases = <<>>
    /\ calls = 0
    /\ firstErr = NoErr
    /\ lastErr = NoErr
    /\ wstop = ""
    /\ wret = NoErr
    /\ result = NoResult
    /\ id = ""
    /\ preId = ""
    /\ attrs = EmptyAttrs
    /\ preAttrs = EmptyAttrs
    /\ assigned = ""
    /\ payload = NoBody
    /\ caller = [c \in Callers |-> NoCaller]
    /\ planned = <<>>
    /\ oAuthClient = <<>>

Init == HandlersInit /\ CodecIdle /\ ClientIdle

\* the wrapper is entered for remote call ph: backoff.Retry resets the policy
EnterWrapper(ph) ==
    /\ phase' = ph
    /\ calls' = 0
    /\ firstErr' = NoErr
    /\ lastErr' = NoErr
    /\ wstop' = ""
    /\ wret' = NoErr
    /\ boInterval' = IF backOff.set THEN InitialInterval ELSE boInterval
    /\ boElapsed' = IF backOff.set THEN 0 ELSE boElapsed

\* the host calls handler o of resource kind k with a ResourceData of
\* identifier i and attribute bag a, holding plan pl ("import": the Read
\* that follows schema.ImportStatePassthroughContext)
Enter(k, o, a, i, pl) ==
    /\ pc = "idle"
    /\ kind' = k
    /\ op' = o
    /\ pc' = "retry"
    /\ id' = i
    /\ attrs' = a
    /\ preAttrs' = a
    /\ preId' = i
    /\ result' = NoResult
    /\ assigned' = ""
    /\ payload' = NoBody
    /\ planned' = pl
    /\ phases' = <<Call(FirstCall(k, o, a), [id |-> i, attrs |-> a])>>
    /\ EnterWrapper(FirstCall(k, o, a))
    /\ oAuthClient' = IF k = "client" /\ o = "update" THEN <<dataToClient(a)>> ELSE <<>>
    /\ UNCHANGED <<backOff, caller, codecVars, clientVars>>

\* the host calls handler o on the tracked resource
Begin(k, o, a) == Enter(k, o, a, id, planned)

\* Create: the resource is absent; the configuration supplies the attributes
Create ==
    /\ id = ""
    /\ \E k \in Kinds :
          IF k = "jwks"
          THEN \E n \in Names, g \in {<<>>, <<Generator("sig", "v1")>>} :
                  Begin(k, "create", [EmptyAttrs EXCEPT !.name = n, !.generator = g])
          ELSE Begin(k, "create", EmptyAttrs)

Read == id # "" /\ Begin(kind, "read", attrs)

Update == id # "" /\ Begin(kind, "update", attrs)

Delete == id # "" /\ Begin(kind, "delete", attrs)

\* one invocation of fn by the wrapper: the remote answers r, one of rs, after CallTime;
\* the wrapper returns or sleeps; when it returns, the handler
\* runs on to its next remote call or to its end
Invoke(rs) ==
    /\ pc = "retry"
    /\ UNCHANGED <<caller, planned, codecVars, clientVars>>
    /\ IF phase = "setClient" /\ oAuthClient = <<>>
       THEN \* fn evaluates *oAuthClient on the nil pointer a failed attempt
            \* left behind: the handler panics before a request is sent
            /\ pc' = "done"
            /\ result' = PanicResult
            /\ UNCHANGED <<backOff, boInterval, boElapsed, kind, op, phase, phases,
                           calls, firstErr, lastErr, wstop, wret, id, preId, attrs,
                           preAttrs, assigned, payload, oAuthClient>>
       ELSE
       \E r \in rs, rnd \in Randoms :
          LET n == Min(calls + 1, MaxCalls)
              el == Min(boElapsed + CallTime, MaxClock)
              w == retryThrottledHydraAction(backOff, boInterval, el, r, n, rnd)
              e == IF r.ok THEN NoErr ELSE ApiErr(r, n)
              h == AfterCall(phase, [id |-> id, attrs |-> attrs], w.ret, r.body)
              \* Execute returns the decoded client, nil with any error
              oc == IF phase # "setClient" THEN oAuthClient
                    ELSE IF r.ok THEN <<r.body>> ELSE <<>>
          IN IF ~w.done
             THEN /\ calls' = n
                  /\ firstErr' = IF calls = 0 THEN e ELSE firstErr
                  /\ lastErr' = e
                  /\ boInterval' = w.interval
                  /\ boElapsed' = Min(el + w.sleep, MaxClock)
                  /\ oAuthClient' = oc
                  /\ UNCHANGED <<backOff, kind, op, pc, phase, phases, wstop, wret,
                                 result, id, preId, attrs, preAttrs, assigned,
                                 payload>>
             ELSE /\ id' = h.id
                  /\ attrs' = h.attrs
                  /\ assigned' = IF phase = "createClient" /\ r.ok
                                 THEN r.body.client_id
                                 ELSE IF phase \in {"generateJwks", "setJwks"} /\ r.ok
                                 THEN attrs.name ELSE assigned
                  /\ payload' = IF r.ok THEN r.body ELSE payload
                  /\ oAuthClient' = oc
                  /\ IF h.next = ""
                     THEN /\ pc' = "done"
                          /\ result' = h.result
                          /\ calls' = n
                          /\ firstErr' = IF calls = 0 THEN e ELSE firstErr
                          /\ lastErr' = e
                          /\ wstop' = w.stop
                          /\ wret' = w.ret
                          /\ boInterval' = w.interval
                          /\ boElapsed' = el
                          /\ UNCHANGED <<phase, phases>>
                     ELSE /\ pc' = "retry"
                          /\ result' = NoResult
                          /\ phases' = Append(phases, Call(h.next, h))
                          /\ EnterWrapper(h.next)
                  /\ UNCHANGED <<backOff, kind, op, preId, preAttrs>>

Attempt == Invoke(Responses(phase, CallTarget(phase, [id |-> id, attrs |-> attrs])))

\* the handler has returned: the host takes the result; a resource without
\* an identifier is not in the host's state.  The handler's locals are gone,
\* and any length of time passes before the next call (the clock reading is
\* not used again before backoff.Retry resets the policy)
HostReturn ==
    /\ pc = "done"
    /\ result.kind # "panic"
    /\ pc' = "idle"
    /\ id' = IF op = "delete" /\ result.kind = "ok" THEN "" ELSE id
    /\ attrs' = IF id' = "" THEN EmptyAttrs ELSE attrs
    /\ kind' = IF id' = "" THEN "client" ELSE kind
    /\ op' = "none"
    /\ phase' = ""
    /\ phases' = <<>>
    /\ calls' = 0
    /\ firstErr' = NoErr
    /\ lastErr' = NoErr
    /\ wstop' = ""
    /\ wret' = NoErr
    /\ result' = NoResult
    /\ preId' = ""
    /\ preAttrs' = EmptyAttrs
    /\ assigned' = ""
    /\ payload' = NoBody
    /\ boElapsed' = IF backOff.set THEN MaxClock ELSE boElapsed
    /\ planned' = IF op = "delete" /\ result.kind = "ok" THEN planned ELSE <<>>
    /\ oAuthClient' = <<>>
    /\ UNCHANGED <<backOff, boInterval, caller, codecVars, clientVars>>

Next == Create \/ Read \/ Update \/ Delete \/ Attempt \/ HostReturn

Spec == Init /\ [][Next]_vars

\* a running handler is not suspended forever: a remote call in flight is
\* answered and the wrapper's sleep ends
FairSpec == Spec /\ WF_vars(Attempt)

----------------------------------------------------------------------------
(* Concurrent handlers.  The host runs the handlers of several resources   *)
(* at once; each passes the very same *backoff.ExponentialBackOff of the   *)
(* HydraConfig to retryThrottledHydraAction.  backoff.Retry resets and     *)
(* steps that object without any lock.  The steps below are whole method   *)
(* calls (Reset, NextBackOff): the interleavings a build produces include  *)
(* these, whatever else the unsynchronised access may do.                  *)

\* what the variables of the single-handler machine hold
handlerVars == <<backOff, kind, op, pc, phase, phases, calls, firstErr, lastErr,
                 wstop, wret, result, id, preId, attrs, preAttrs, assigned,
                 payload, planned, oAuthClient>>

\* policies with a ceiling on the elapsed time, and without jitter
CeilingPolicies ==
    {b \in {providerConfigure(r) : r \in RetryBlocks} :
        b.set /\ b.MaxElapsedTime.d # DurZero /\ b.RandomizationFactor = 0}

ConcInit == Init /\ backOff \in CeilingPolicies

Running(c) == caller[c].at \in {"fn", "sleep"}

\* caller c enters retryThrottledHydraAction: backoff.Retry calls Reset on
\* the shared policy and invokes fn
EnterRetry(c) ==
    /\ caller[c].at = "idle"
    /\ caller' = [caller EXCEPT ![c] = [at |-> "fn", wait |-> CallTime, age |-> 0]]
    /\ boInterval' = InitialInterval
    /\ boElapsed' = 0
    /\ UNCHANGED <<handlerVars, codecVars, clientVars>>

\* fn of caller c returns with response r: the wrapper returns, or asks the
\* shared policy for the next delay and sleeps
FnReturns(c) ==
    /\ caller[c].at = "fn"
    /\ caller[c].wait = 0
    /\ \E r \in {x \in Responses("getClient", "c1") :
                     x.ok \/ x.http = StatusTooManyRequests},
          rnd \in Randoms :
          LET w == retryThrottledHydraAction(backOff, boInterval, boElapsed, r, 1, rnd)
          IN /\ caller' = [caller EXCEPT ![c] =
                    IF w.done THEN [@ EXCEPT !.at = "done"]
                    ELSE [@ EXCEPT !.at = "sleep", !.wait = w.sleep]]
             /\ boInterval' = w.interval
    /\ UNCHANGED <<boElapsed, handlerVars, codecVars, clientVars>>

\* the sleep of caller c is over: backoff.Retry invokes fn again
Wake(c) ==
    /\ caller[c].at = "sleep"
    /\ caller[c].wait = 0
    /\ caller' = [caller EXCEPT ![c] = [@ EXCEPT !.at = "fn", !.wait = CallTime]]
    /\ UNCHANGED <<boInterval, boElapsed, handlerVars, codecVars, clientVars>>

\* the handler of caller c has returned; the host may run another one
Leave(c) ==
    /\ caller[c].at = "done"
    /\ caller' = [caller EXCEPT ![c] = NoCaller]
    /\ UNCHANGED <<boInterval, boElapsed, handlerVars, codecVars, clientVars>>

\* time passes until the earliest fn or sleep ends
Pass ==
    /\ \E c \in Callers : Running(c)
    /\ \A c \in Callers : Running(c) => caller[c].wait > 0
    /\ LET dt == CHOOSE t \in {caller[c].wait : c \in {x \in Callers : Running(x)}} :
                    \A c \in Callers : Running(c) => t <= caller[c].wait
       IN /\ caller' = [c \in Callers |->
                 IF Running(c)
                 THEN [caller[c] EXCEPT !.wait = @ - dt,
                                        !.age = Min(@ + dt, MaxClock)]
                 ELSE caller[c]]
          /\ boElapsed' = Min(boElapsed + dt, MaxClock)
    /\ UNCHANGED <<boInterval, handlerVars, codecVars, clientVars>>

ConcNext ==
    \/ \E c \in Callers : EnterRetry(c)
    \/ \E c \in Callers : FnReturns(c)
    \/ \E c \in Callers : Wake(c)
    \/ \E c \in Callers : Leave(c)
    \/ Pass

ConcSpec == ConcInit /\ [][ConcNext]_vars

----------------------------------------------------------------------------
(* The host driving the handlers from configurations: it validates a       *)
(* configuration against the schema, plans (create, update in place, or    *)
(* destroy and create where a ForceNew attribute changed), refreshes,      *)
(* destroys and imports.  Retries are off here (no retry block).           *)

Q(s) == <<"\"">> \o s \o <<"\"">>

\* the text of a JSON object member and of an object
Member(k, v) == Q(k) \o <<":">> \o v
ObjectText(members) == <<"{">> \o members \o <<"}">>

TxtEmptyObject == ObjectText(<<>>)
TxtStrings == ObjectText(Member(<<"a">>, Q(<<"x">>)))
TxtStringsUnsorted ==
    ObjectText(Member(<<"b">>, Q(<<>>)) \o <<",">> \o Member(<<"a">>, Q(<<"x">>)))
TxtNumber == ObjectText(Member(<<"a">>, <<"1">>))
TxtNested ==
    ObjectText(Member(<<"a">>, Q(<<"x">>)) \o <<",">>
               \o Member(<<"b">>, ObjectText(Member(<<"c">>, Q(<<"y">>)))))
TxtNullValue == ObjectText(Member(<<"a">>, <<"n", "u", "l", "l">>))
TxtArray == <<"[", "1", "]">>
TxtString == Q(<<"x">>)
TxtNull == <<"n", "u", "l", "l">>
TxtCut == <<"{">> \o Member(<<"a">>, <<>>)
TxtBareKey == <<"{", "a", ":", "1", "}">>

\* the metadata member of a remote OAuth2 client, as decoded from the
\* response: absent or null, no object, or an object
RemoteMetadatas ==
    {Unmarshal(t).v : t \in {TxtNull, TxtString, TxtEmptyObject, TxtStrings,
                             TxtStringsUnsorted, TxtNumber, TxtNested, TxtNullValue}}

\* values a configuration gives the metadata attribute (a map of strings)
MetadataMaps == {<<>>} \cup {Unmarshal(t).v.m : t \in {TxtStrings, TxtStringsUnsorted}}

\* values a configuration gives the metadata_json attribute
MetadataJSONs == {TxtEmptyObject, TxtStrings, TxtNumber, TxtNested, TxtArray,
                  TxtString, TxtNull, TxtCut, TxtBareKey}

Generators ==
    {<<>>} \cup {<<Generator(u, k)>> : u \in {"sig", "enc"}, k \in {"v1", "v2"}}

\* configurations of a resource of kind k: the attributes the user writes
Configs(k) ==
    IF k = "jwks"
    THEN {[EmptyAttrs EXCEPT !.name = n, !.generator = g,
                             !.key = IF g = <<>> THEN <<KeyData("k1", {"e", "n"}, <<>>)>>
                                     ELSE <<>>] :
             n \in Names, g \in Generators}
    ELSE {[EmptyAttrs EXCEPT !.metadata = m] : m \in MetadataMaps}
         \cup {[EmptyAttrs EXCEPT !.metadata_json = j] : j \in MetadataJSONs}
         \cup {[EmptyAttrs EXCEPT !.metadata = Unmarshal(TxtStrings).v.m,
                                  !.metadata_json = TxtNumber]}

\* the schema's checks on a configuration: ValidateFunc and ConflictsWith of
\* metadata_json and metadata
Validate(k, c) ==
    k = "client" =>
        /\ StringIsJSON(c.metadata_json)
        /\ ~(c.metadata # <<>> /\ c.metadata_json # <<>>)

ValidationErr == [what |-> "validation", http |-> 0, code |-> 0, seq |-> 0]

\* the ResourceData of an update: the configuration's values, and the prior
\* state's for what is computed
Merge(k, a, c) ==
    IF k = "jwks"
    THEN [a EXCEPT !.name = c.name, !.generator = c.generator,
                   !.key = IF c.key # <<>> THEN c.key ELSE a.key]
    ELSE [a EXCEPT !.metadata = c.metadata, !.metadata_json = c.metadata_json]

\* the attributes of the JWKS schema declared ForceNew
ForceNew == {"generator", "generator.keepers"}

\* mutant: keepers is not declared ForceNew
RequiresNew_KeepersInPlace(k, a, c) ==
    /\ k = "jwks"
    /\ "generator" \in ForceNew
    /\ Len(a.generator) # Len(c.generator)

\* the plan replaces the resource: the change from prior state a to
\* configuration c touches a ForceNew attribute
RequiresNew(k, a, c) ==
    /\ k = "jwks"
    /\ \/ "generator" \in ForceNew /\ Len(a.generator) # Len(c.generator)
       \/ /\ "generator.keepers" \in ForceNew
          /\ a.generator # <<>>
          /\ c.generator # <<>>
          /\ a.generator[1].keepers # c.generator[1].keepers

\* responses of the remote to the host's calls: not found, internal error,
\* or success
HostResponses(ph, rid) ==
    {r \in ErrorResponses : r.http \in {404, 500} /\ r.code = r.http} \cup
    (CASE ph \in {"createClient", "getClient", "setClient"} ->
            {[ok |-> TRUE, http |-> 200, code |-> 0,
              body |-> [NoBody EXCEPT !.client_id = c, !.client_secret = sec,
                                       !.jwks = j, !.owner = "o1", !.keys = <<Jwk1>>,
                                       !.metadata = md]] :
                c \in IF ph = "createClient" THEN ClientIds ELSE {rid},
                sec \in {Nil}, j \in {"undecodable", "object"},
                md \in RemoteMetadatas}
       [] OTHER -> OkResponses(ph, rid))

HostInit == Init /\ ~backOff.set

\* the configuration fails the schema's checks: the host reports the error
\* and calls no handler
Reject(k, o, c) ==
    /\ pc = "idle"
    /\ kind' = k
    /\ op' = o
    /\ pc' = "done"
    /\ preAttrs' = c
    /\ preId' = id
    /\ result' = ErrResult(ValidationErr)
    /\ UNCHANGED <<backOff, boInterval, boElapsed, phase, phases, calls, firstErr,
                   lastErr, wstop, wret, id, attrs, assigned, payload, caller,
                   planned, oAuthClient, codecVars, clientVars>>

HostCreate ==
    /\ id = ""
    /\ planned = <<>>
    /\ \E k \in Kinds : \E c \in Configs(k) :
          IF Validate(k, c) THEN Begin(k, "create", c) ELSE Reject(k, "create", c)

\* terraform import: ImportStatePassthroughContext sets the identifier, then
\* the host calls Read
Import ==
    /\ id = ""
    /\ planned = <<>>
    /\ \E k \in Kinds : \E i \in (IF k = "jwks" THEN Names ELSE ClientIds) :
          Enter(k, "import", EmptyAttrs, i, <<>>)

Refresh == planned = <<>> /\ Read

\* the configuration of the tracked resource has changed
Apply ==
    /\ id # ""
    /\ planned = <<>>
    /\ \E c \in Configs(kind) :
          IF ~Validate(kind, c) THEN Reject(kind, "update", c)
          ELSE IF RequiresNew(kind, attrs, c)
          THEN Enter(kind, "delete", attrs, id,
                     <<[kind |-> kind, config |-> c, prior |-> attrs]>>)
          ELSE /\ Merge(kind, attrs, c) # attrs
               /\ Begin(kind, "update", Merge(kind, attrs, c))

\* the second half of a replacement: the destroy is done
Recreate ==
    /\ id = ""
    /\ planned # <<>>
    /\ Enter(planned[1].kind, "create", planned[1].config, "", planned)

Destroy == planned = <<>> /\ Delete

\* the remote answers the call in flight
Answer == Invoke(HostResponses(phase, CallTarget(phase, [id |-> id, attrs |-> attrs])))

HostNext ==
    \/ HostCreate
    \/ Import
    \/ Refresh
    \/ Apply
    \/ Recreate
    \/ Destroy
    \/ Answer
    \/ HostReturn

HostSpec == HostInit /\ [][HostNext]_vars

----------------------------------------------------------------------------
(* The converters on their own: a converter is applied to an input (arg)   *)
(* and what it returns is appended to ret; the second step of a round trip *)
(* is applied to what the first one returned.                              *)

MaxKeys == 2         \* keys of an inline key list
MaxScopes == 2       \* entries of a scopes list

\* mutant: the two strings are compared as written
diffSuppressMatchingDurationStrings_Literal(old, new) ==
    ParseDuration(old).ok /\ ParseDuration(new).ok /\ old = new

\* diffSuppressMatchingDurationStrings(k, old, new, d): k and d are not used;
\* time.Duration values are equal when sign and magnitude are
diffSuppressMatchingDurationStrings(old, new) ==
    LET oldDuration == ParseDuration(old)
        newDuration == ParseDuration(new)
    IN IF ~oldDuration.ok THEN FALSE
       ELSE IF ~newDuration.ok THEN FALSE
       ELSE oldDuration = newDuration

\* values a user or the remote may give for a lifespan attribute
Lifespans ==
    {<<"6", "0", "m">>, <<"1", "h">>, <<"3", "6", "0", "0", "s">>,
     <<"1", "h", "0", "m">>, <<"+", "1", "h">>, <<"-", "1", "h">>,
     <<"9", "0", "m">>, <<"1", ".", "5", "h">>, <<"1", "h", "3", "0", "m">>,
     <<"3", "0", "m">>, <<".", "5", "h">>, <<"1", "5", "0", "0", "m", "s">>,
     <<"1", ".", "5", "s">>, <<"0", "s">>, <<"0">>, <<"-", "0", "s">>,
     <<>>, <<"1">>, <<"1", "x">>}

KeyInputs ==
    {KeyData(kid, set, x5c) :
        kid \in {"k1", "k2"},
        set \in {{}, {"e", "n"}, {"crv", "x", "y"}, JwkOptional},
        x5c \in {<<>>, <<"c1">>, <<"c1", "c2">>}}

KeyListInputs == UNION {[1..n -> KeyInputs] : n \in 0..MaxKeys}

ScopeNames == {<<"a">>, <<"b", "c">>}

ScopeLists == UNION {[1..n -> ScopeNames] : n \in 0..MaxScopes}

\* remote clients: the scope is nil, or the join of a scope list (of the
\* empty list: the empty string)
RemoteClients ==
    {[NoBody EXCEPT !.client_id = "c1", !.jwks = "object", !.scope = sc,
                    !.client_name = cn, !.skip_consent = skip] :
        sc \in {<<>>} \cup {<<Join(s, " ")>> : s \in ScopeLists},
        cn \in {<<>>, <<"">>, <<"n1">>},
        skip \in {<<>>, <<FALSE>>, <<TRUE>>}}

\* configurations of an OAuth2 client: an attribute is not set (empty) or
\* set to the one value given, which may be the zero value of its type
ClientConfigs ==
    [client_name : {<<>>, <<"">>, <<"n1">>},
     skip_consent : {<<>>, <<FALSE>>, <<TRUE>>},
     owner : {<<>>, <<"">>, <<"o1">>},
     client_secret : {<<>>, <<"">>, <<"s1">>},
     scopes : {<<>>} \cup {<<s>> : s \in ScopeLists}]

\* data.Get of an attribute: the zero value of its type when it is not set
Get(v, zero) == IF v = <<>> THEN zero ELSE v[1]

\* the ResourceData the host hands to a handler for configuration c
ConfigData(c) ==
    [EmptyAttrs EXCEPT !.client_name = Get(c.client_name, ""),
                       !.skip_consent = Get(c.skip_consent, FALSE),
                       !.owner = Get(c.owner, ""),
                       !.client_secret = Get(c.client_secret, ""),
                       !.scopes = Get(c.scopes, <<>>)]

CodecInit ==
    /\ HandlersInit
    /\ ~backOff.set
    /\ ClientIdle
    /\ ret = <<>>
    /\ \/ fun = "jwks" /\ arg \in KeyListInputs
       \/ fun = "diff" /\ arg \in Lifespans \X Lifespans
       \/ fun = "encode" /\ arg \in RemoteClients
       \/ fun = "decode" /\ arg \in ClientConfigs

Apply1(v) ==
    /\ ret' = Append(ret, v)
    /\ UNCHANGED <<fun, arg, backOff, boInterval, boElapsed, caller, handlerVars,
                   clientVars>>

\* dataToJWKS on the key attribute
DecodeJWKS ==
    /\ fun = "jwks"
    /\ ret = <<>>
    /\ Apply1(dataToJWKS([EmptyAttrs EXCEPT !.key = arg], "key"))

\* dataFromJWKS on the key set dataToJWKS returned
EncodeJWKS ==
    /\ fun = "jwks"
    /\ Len(ret) = 1
    /\ Apply1(dataFromJWKS(EmptyAttrs, ret[1], "key").key)

\* the diff of a lifespan attribute: old is arg[1], new is arg[2]
DiffSuppress ==
    /\ fun = "diff"
    /\ ret = <<>>
    /\ Apply1(diffSuppressMatchingDurationStrings(arg[1], arg[2]))

\* dataFromClient on a remote client
EncodeClient ==
    /\ fun = "encode"
    /\ ret = <<>>
    /\ Apply1(dataFromClient([id |-> "", attrs |-> EmptyAttrs], arg).attrs)

\* dataToClient on what dataFromClient stored, or on a configuration
DecodeClient ==
    \/ /\ fun = "encode"
       /\ Len(ret) = 1
       /\ Apply1(dataToClient(ret[1]))
    \/ /\ fun = "decode"
       /\ ret = <<>>
       /\ Apply1(dataToClient(ConfigData(arg)))

CodecNext ==
    \/ DecodeJWKS
    \/ EncodeJWKS
    \/ DiffSuppress
    \/ EncodeClient
    \/ DecodeClient

CodecSpec == CodecInit /\ [][CodecNext]_vars

----------------------------------------------------------------------------
(* The HTTP client of the provider and the JWKS data source.  A transport  *)
(* is the chain of its layers, outermost first; the last layer is the      *)
(* pooled http.Transport.  A layer has a type, the credentials it adds     *)
(* (cred) and, for the http.Transport, the TLS client configuration.       *)

MaxReads == 2        \* reads of the data source on one client

\* the authentication blocks a configuration may hold: each sub-block is
\* absent or present once (MaxItems: 1) with its required members
AuthBlocks ==
    [basic : {<<>>, <<[username |-> "johndoe", password |-> "p455w0rd"]>>,
              <<[username |-> "invalid", password |-> "invalid"]>>},
     http_header : {<<>>, <<[name |-> "My-Header", value |-> "t0ps3cr3t"]>>},
     oauth2 : {<<>>, <<[token_endpoint |-> "https://idp/token", client_id |-> "c1",
                        client_secret |-> "s1"]>>},
     tls : {<<>>,
            <<[certificate |-> "crt1", key |-> "key1", insecure_skip_verify |-> FALSE]>>,
            <<[certificate |-> "crt1", key |-> "key2", insecure_skip_verify |-> TRUE]>>}]

KeyPairErr == [what |-> "tls", http |-> 0, code |-> 0, seq |-> 0]

\* tls.X509KeyPair: the private key has to be the certificate's
X509KeyPair(certificate, key) ==
    IF <<certificate, key>> \in {<<"crt1", "key1">>}
    THEN [ok |-> TRUE, cert |-> <<certificate>>]
    ELSE [ok |-> FALSE, cert |-> <<>>]

Layer(type, cred) == [type |-> type, cred |-> cred, TLSClientConfig |-> <<>>]

\* cleanhttp.DefaultPooledTransport()
DefaultPooledTransport == Layer("http.Transport", <<>>)

\* mutant: a decorator wraps what httpClient.Transport holds by then
configureHTTPClient_Stacked(data) ==
    LET pair == IF data.tls # <<>>
                THEN X509KeyPair(data.tls[1].certificate, data.tls[1].key)
                ELSE [ok |-> TRUE, cert |-> <<>>]
        httpTransport ==
            IF data.tls # <<>>
            THEN [DefaultPooledTransport EXCEPT !.TLSClientConfig =
                      <<[Certificates |-> pair.cert,
                         InsecureSkipVerify |-> data.tls[1].insecure_skip_verify]>>]
            ELSE DefaultPooledTransport
        t0 == <<httpTransport>>
        t1 == IF data.basic # <<>>
              THEN <<Layer("BasicAuthTransport",
                           <<data.basic[1].username, data.basic[1].password>>)>> \o t0
              ELSE t0
        t2 == IF data.http_header # <<>>
              THEN <<Layer("HttpHeaderAuthTransport",
                           <<data.http_header[1].name, data.http_header[1].value>>)>> \o t1
              ELSE t1
        t3 == IF data.oauth2 # <<>>
              THEN <<Layer("oauth2.Transport",
                           <<data.oauth2[1].token_endpoint, data.oauth2[1].client_id,
                             data.oauth2[1].client_secret>>)>> \o t2
              ELSE t2
    IN IF ~pair.ok THEN [httpClient |-> <<>>, err |-> KeyPairErr]
       ELSE [httpClient |-> <<[Transport |-> t3]>>, err |-> NoErr]

\* mutant: a decorator wraps a pooled transport of its own
configureHTTPClient_FreshBase(data) ==
    LET pair == IF data.tls # <<>>
                THEN X509KeyPair(data.tls[1].certificate, data.tls[1].key)
                ELSE [ok |-> TRUE, cert |-> <<>>]
        httpTransport ==
            IF data.tls # <<>>
            THEN [DefaultPooledTransport EXCEPT !.TLSClientConfig =
                      <<[Certificates |-> pair.cert,
                         InsecureSkipVerify |-> data.tls[1].insecure_skip_verify]>>]
            ELSE DefaultPooledTransport
        t0 == <<httpTransport>>
        t1 == IF data.basic # <<>>
              THEN <<Layer("BasicAuthTransport",
                           <<data.basic[1].username, data.basic[1].password>>),
                     DefaultPooledTransport>>
              ELSE t0
        t2 == IF data.http_header # <<>>
              THEN <<Layer("HttpHeaderAuthTransport",
                           <<data.http_header[1].name, data.http_header[1].value>>),
                     DefaultPooledTransport>>
              ELSE t1
        t3 == IF data.oauth2 # <<>>
              THEN <<Layer("oauth2.Transport",
                           <<data.oauth2[1].token_endpoint, data.oauth2[1].client_id,
                             data.oauth2[1].client_secret>>),
                     DefaultPooledTransport>>
              ELSE t2
    IN IF ~pair.ok THEN [httpClient |-> <<>>, err |-> KeyPairErr]
       ELSE [httpClient |-> <<[Transport |-> t3]>>, err |-> NoErr]

\* configureHTTPClient(data): data is the authentication block.  The TLS
\* configuration goes into httpTransport; httpClient.Transport is assigned
\* three times in turn, each decorator wrapping httpTransport itself
configureHTTPClient(data) ==
    LET pair == IF data.tls # <<>>
                THEN X509KeyPair(data.tls[1].certificate, data.tls[1].key)
                ELSE [ok |-> TRUE, cert |-> <<>>]
        httpTransport ==
            IF data.tls # <<>>
            THEN [DefaultPooledTransport EXCEPT !.TLSClientConfig =
                      <<[Certificates |-> pair.cert,
                         InsecureSkipVerify |-> data.tls[1].insecure_skip_verify]>>]
            ELSE DefaultPooledTransport
        t0 == <<httpTransport>>
        t1 == IF data.basic # <<>>
              THEN <<Layer("BasicAuthTransport",
                           <<data.basic[1].username, data.basic[1].password>>)>> \o t0
              ELSE t0
        t2 == IF data.http_header # <<>>
              THEN <<Layer("HttpHeaderAuthTransport",
                           <<data.http_header[1].name, data.http_header[1].value>>)>> \o t0
              ELSE t1
        t3 == IF data.oauth2 # <<>>
              THEN <<Layer("oauth2.Transport",
                           <<data.oauth2[1].token_endpoint, data.oauth2[1].client_id,
                             data.oauth2[1].client_secret>>)>> \o t0
              ELSE t2
    IN IF ~pair.ok THEN [httpClient |-> <<>>, err |-> KeyPairErr]
       ELSE [httpClient |-> <<[Transport |-> t3]>>, err |-> NoErr]

\* a request before any transport has seen it
NewRequest(set) == [set |-> set, authorization |-> <<>>, header |-> <<>>,
                    certificate |-> <<>>]

\* RoundTrip of a transport chain: the request as the remote receives it.
\* BasicAuthTransport sets the Authorization header (SetBasicAuth),
\* HttpHeaderAuthTransport adds its header, oauth2.Transport sets the bearer
\* token its source returned; the http.Transport presents its certificate
RECURSIVE RoundTrip(_, _, _)
RoundTrip(transport, req, token) ==
    IF transport = <<>> THEN req
    ELSE LET t == Head(transport)
             r == CASE t.type = "BasicAuthTransport" ->
                         [req EXCEPT !.authorization = <<"Basic">> \o t.cred]
                    [] t.type = "HttpHeaderAuthTransport" ->
                         [req EXCEPT !.header = t.cred]
                    [] t.type = "oauth2.Transport" ->
                         [req EXCEPT !.authorization = <<"Bearer", token>>]
                    [] OTHER ->
                         IF t.TLSClientConfig # <<>>
                         THEN [req EXCEPT !.certificate = t.TLSClientConfig[1].Certificates]
                         ELSE req
         IN RoundTrip(Tail(transport), r, token)

\* what the remote asks of a request
RemoteChecks == {"open", "basic", "http_header"}

\* the remote of the provider tests: 401 unless the request is authorised
Authorised(check, req) ==
    CASE check = "basic" -> req.authorization = <<"Basic", "johndoe", "p455w0rd">>
      [] check = "http_header" -> req.header = <<"My-Header", "t0ps3cr3t">>
      [] OTHER -> TRUE

\* mutant: the error of the GET is dropped
readJWKSDataSource_SwallowError(d, name, status, keys) ==
    Return([id |-> name,
            attrs |-> dataFromJWKS([d.attrs EXCEPT !.name = name], keys, "keys")],
           OkResult)

\* readJWKSDataSource: SetId(name), the GET through the client, then the
\* error or the keys of the response
readJWKSDataSource(d, name, status, keys) ==
    LET d1 == [id |-> name, attrs |-> [d.attrs EXCEPT !.name = name]]
    IN IF status # 200
       THEN Return(d1, ErrResult(ApiErr([http |-> status, code |-> 0], 1)))
       ELSE Return([d1 EXCEPT !.attrs = dataFromJWKS(d1.attrs, keys, "keys")], OkResult)

AuthInit ==
    /\ HandlersInit
    /\ ~backOff.set
    /\ CodecIdle
    /\ auth \in AuthBlocks
    /\ httpClient = <<>>
    /\ wire = <<>>

\* providerConfigure, as far as the HTTP client goes
Configure ==
    /\ httpClient = <<>>
    /\ result = NoResult
    /\ LET c == configureHTTPClient(auth)
       IN /\ httpClient' = c.httpClient
          /\ result' = IF c.err = NoErr THEN NoResult ELSE ErrResult(c.err)
    /\ UNCHANGED <<auth, wire, backOff, boInterval, boElapsed, caller, codecVars,
                   kind, op, pc, phase, phases, calls, firstErr, lastErr, wstop,
                   wret, id, preId, attrs, preAttrs, assigned, payload, planned,
                   oAuthClient>>

\* a read of the hydra_jwks data source named n, against a remote that
\* checks the request and holds the keys ks
ReadDataSource ==
    /\ httpClient # <<>>
    /\ Len(wire) < MaxReads
    /\ \E n \in Names, check \in RemoteChecks, ks \in KeyLists :
          LET req == RoundTrip(httpClient[1].Transport, NewRequest(n), "t1")
              status == IF Authorised(check, req) THEN 200 ELSE StatusUnauthorized
              r == readJWKSDataSource([id |-> "", attrs |-> EmptyAttrs], n, status,
                                      IF status = 200 THEN ks ELSE <<>>)
          IN /\ wire' = Append(wire, [req |-> req, check |-> check, status |-> status,
                                      keys |-> IF status = 200 THEN ks ELSE <<>>])
             /\ kind' = "jwks"
             /\ op' = "read"
             /\ id' = r.id
             /\ attrs' = r.attrs
             /\ result' = r.result
    /\ UNCHANGED <<auth, httpClient, backOff, boInterval, boElapsed, caller,
                   codecVars, pc, phase, phases, calls, firstErr, lastErr, wstop,
                   wret, preId, preAttrs, assigned, payload, planned, oAuthClient>>

AuthNext ==
    \/ Configure
    \/ ReadDataSource

AuthSpec == AuthInit /\ [][AuthNext]_vars

----------------------------------------------------------------------------
(* Properties *)

Data == [id |-> id, attrs |-> attrs]

\* the keys of the remote as values of a key list attribute
Keys(remote) == [i \in 1..Len(remote) |-> dataFromJWK(remote[i])]

\* the wrapper call the handler made last has returned
WrapperReturned == pc = "done"

\* C1: with a backoff policy configured, a call whose first attempt fails
\* without an HTTP 429 response (any other status, or no response at all)
\* invokes the wrapped function exactly once and returns that very error.
C1_NonThrottledNeverRetried ==
    (backOff.set /\ calls >= 1 /\ firstErr.what = "api"
        /\ firstErr.http # StatusTooManyRequests)
    => /\ WrapperReturned
       /\ calls = 1
       /\ wstop = "permanent"
       /\ wret = firstErr

C1_Witness ==
    /\ backOff.set
    /\ WrapperReturned
    /\ calls = 1
    /\ firstErr.what = "api"
    /\ firstErr.http = 0
    /\ wret = firstErr

\* C2: for every policy built from a valid retry block with enabled = true,
\* "0s" included, a wrapped call that keeps failing with HTTP 429 eventually
\* returns to its caller: the handler that entered the wrapper gets to its end.
C2_ThrottledCallReturns == (pc = "retry") ~> (pc = "done")

\* C3: without a policy the wrapped function is invoked exactly once and the
\* wrapper returns its error unmodified, whatever the response was.
C3_NilPolicyCallsOnce ==
    (~backOff.set /\ calls >= 1)
    => /\ WrapperReturned
       /\ calls = 1
       /\ wstop = "nopolicy"
       /\ wret = lastErr
       /\ wret = firstErr

C3_Witness ==
    /\ ~backOff.set
    /\ WrapperReturned
    /\ calls = 1
    /\ lastErr.http = StatusTooManyRequests
    /\ wret = lastErr

\* C4: when the retry loop stops because the elapsed time exceeded the
\* ceiling, the wrapper returns the error of the last attempt made: a 429
\* error, never nil and never the error of an earlier attempt.
C4_CeilingReturnsLastError ==
    wstop = "ceiling"
    => /\ wret # NoErr
       /\ wret = lastErr
       /\ wret.http = StatusTooManyRequests
       /\ wret.seq = calls

C4_Witness ==
    /\ wstop = "ceiling"
    /\ calls >= 2
    /\ firstErr # lastErr
    /\ firstErr.code # lastErr.code
    /\ wret = lastErr

\* a Read of an OAuth2 client has returned after its GET failed with status h
ClientReadFailedWith(h) ==
    /\ pc = "done"
    /\ kind = "client"
    /\ op = "read"
    /\ lastErr.what = "api"
    /\ lastErr.http = h

\* the handler treated the resource as gone: identifier cleared, no error
TreatedAsGone == id = "" /\ result = OkResult

C6_Read404Clears == ClientReadFailedWith(404) => TreatedAsGone

\* C7: a Read of a JWKS whose GET is answered with 401 or 404 clears the
\* tracked identifier and reports no error.
C7_JwksReadGoneClears ==
    (pc = "done" /\ kind = "jwks" /\ op = "read" /\ lastErr.what = "api"
        /\ lastErr.http \in {StatusUnauthorized, 404})
    => TreatedAsGone

CreateSucceeded == pc = "done" /\ op = "create" /\ result = OkResult

\* C9 as stated: for both resource kinds a successful Create adopts the
\* remote-assigned identifier and then performs a Read, a GET by that
\* identifier, before it returns.
C9_CreateThenRead ==
    CreateSucceeded
    => /\ id = assigned
       /\ Len(phases) = 2
       /\ phases[Len(phases)].call \in {"getClient", "getJwks"}
       /\ phases[Len(phases)].target = id

\* C9 amended: a successful JWKS Create (generate or set) adopts the set name
\* as identifier and then performs a GET by that identifier whose response
\* populates the key attribute; a successful OAuth2 client Create issues the
\* create call alone and populates identifier and attributes from the create
\* response.
C9_CreateReadsJwksOnly ==
    CreateSucceeded
    => IF kind = "jwks"
       THEN /\ id = assigned
            /\ id = attrs.name
            /\ Len(phases) = 2
            /\ phases[1].call = createJWKSResource(attrs)
            /\ phases[1].target = attrs.name
            /\ phases[2].call = "getJwks"
            /\ phases[2].target = id
            /\ attrs.key = Keys(payload.keys)
       ELSE /\ id = assigned
            /\ Len(phases) = 1
            /\ phases[1].call = "createClient"
            /\ phases[1].target = ""
            /\ id = payload.client_id
            /\ attrs.client_id = payload.client_id
            /\ attrs.owner = payload.owner
            /\ attrs.jwk = Keys(payload.keys)

C9_Witness ==
    /\ CreateSucceeded
    /\ kind = "jwks"
    /\ attrs.generator # <<>>
    /\ Len(phases) = 2
    /\ attrs.key = <<dataFromJWK(Jwk1)>>

\* C10: a create that succeeded remotely and then failed locally (the
\* response could not be decoded, or the follow-up Read failed) leaves the
\* identifier the remote assigned as the tracked identifier; a create whose
\* remote call failed leaves the tracked identifier empty.
C10_PartialCreateKeepsId ==
    (pc = "done" /\ op = "create" /\ result.kind = "err")
    => IF assigned # ""
       THEN id = assigned
       ELSE id = "" /\ Len(phases) = 1 /\ result.err = lastErr

C10_Witness ==
    /\ pc = "done"
    /\ op = "create"
    /\ kind = "client"
    /\ result = ErrResult(DecodeErr)
    /\ assigned # ""
    /\ id = assigned

\* C12: a Read or Update of an OAuth2 client whose response carries no
\* client_secret, or an empty one, leaves the client_secret attribute as it
\* was when the handler was entered.
C12_SecretNotEmptied ==
    (pc = "done" /\ kind = "client" /\ op \in {"read", "update"}
        /\ result = OkResult /\ payload.client_secret \in {Nil, ""})
    => attrs.client_secret = preAttrs.client_secret

\* C11: of the handlers that run concurrently on one provider instance, each
\* one's retry loop measures the elapsed-time budget from its own entry: a
\* call still retrying (in fn or asleep) entered the wrapper no longer ago
\* than the ceiling plus the one call that was in flight when it passed.
C11_OwnCeilingKept ==
    \A c \in Callers :
        Running(c) => caller[c].age <= Millis(backOff.MaxElapsedTime) + CallTime

\* the keepers of prior state a and of configuration c differ
KeepersChanged(a, c) ==
    /\ a.generator # <<>>
    /\ c.generator # <<>>
    /\ a.generator[1].keepers # c.generator[1].keepers

\* C13: a change of a value in the keepers of a JWKS generator is never
\* applied by the update operation; the host destroys the resource (the
\* delete call has succeeded, the identifier is gone) and then creates it,
\* and that create calls the generate endpoint with the new configuration.
C13_KeepersChangeReplaces ==
    [][/\ (pc = "idle" /\ op' = "update" /\ kind' = "jwks")
           => ~KeepersChanged(attrs, attrs')
       /\ (pc = "idle" /\ pc' = "retry" /\ planned # <<>>
               /\ KeepersChanged(planned[1].prior, planned[1].config))
           => /\ id = ""
              /\ op' = "create"
              /\ attrs' = planned[1].config
              /\ phases'[1].call = "generateJwks"]_vars

C13_Witness ==
    /\ pc = "done"
    /\ op = "create"
    /\ kind = "jwks"
    /\ planned # <<>>
    /\ KeepersChanged(planned[1].prior, planned[1].config)
    /\ planned[1].prior.generator[1].use = planned[1].config.generator[1].use
    /\ planned[1].prior.name = planned[1].config.name
    /\ phases[1].call = "generateJwks"
    /\ result = OkResult

\* C14: a JWKS Create with a generator block calls the generate endpoint for
\* the set name, with the generator's alg, kid and use, and never the set
\* endpoint; without a generator block it calls the set endpoint with the
\* inline keys and never the generate endpoint.
C14_CreateBranchesOnGenerator ==
    (kind = "jwks" /\ op = "create" /\ Len(phases) >= 1)
    => IF preAttrs.generator # <<>>
       THEN /\ phases[1].call = "generateJwks"
            /\ phases[1].target = preAttrs.name
            /\ phases[1].req = [alg |-> preAttrs.generator[1].alg,
                                kid |-> preAttrs.generator[1].kid,
                                use |-> preAttrs.generator[1].use]
            /\ \A i \in 1..Len(phases) : phases[i].call # "setJwks"
       ELSE /\ phases[1].call = "setJwks"
            /\ phases[1].target = preAttrs.name
            /\ Keys(phases[1].req.keys) = preAttrs.key
            /\ \A i \in 1..Len(phases) : phases[i].call # "generateJwks"

C14_Witness ==
    /\ kind = "jwks"
    /\ op = "create"
    /\ pc = "done"
    /\ result = OkResult
    /\ preAttrs.generator # <<>>
    /\ preAttrs.generator[1].use = "enc"
    /\ phases[1].call = "generateJwks"
    /\ phases[1].req.use = "enc"
    /\ Len(phases) = 2

\* C15: a Read or an Update of a JWKS leaves the tracked identifier as it
\* was when the handler was entered, and the set call of an Update is
\* addressed to that identifier.
C15_JwksIdImmutable ==
    (kind = "jwks" /\ op \in {"read", "import", "update"} /\ Len(phases) >= 1)
    => /\ id = preId
       /\ op = "update" => phases[1].target = preId

\* C16: the delete call of a Delete, of either resource kind, is addressed
\* to the tracked identifier, and an error of that call is what the handler
\* returns.
C16_DeleteByTrackedId ==
    (op = "delete" /\ Len(phases) >= 1)
    => /\ phases[1].call = (IF kind = "jwks" THEN "deleteJwks" ELSE "deleteClient")
       /\ phases[1].target = preId
       /\ (pc = "done" /\ lastErr # NoErr) => result = ErrResult(lastErr)

\* C17: the Read that follows an import leaves the attributes a Read leaves
\* after a Create of that resource: for a JWKS the name (the identifier) and
\* the keys, for an OAuth2 client the attributes of the remote client.
C17_ImportLikeCreate ==
    (op = "import" /\ pc = "done" /\ result = OkResult /\ id # "")
    => IF kind = "jwks"
       THEN attrs.name = id /\ attrs.key = Keys(payload.keys)
       ELSE /\ attrs.client_id = id
            /\ attrs.jwk = Keys(payload.keys)
            /\ attrs.owner = payload.owner

\* an OAuth2 client handler has encoded the remote client of its response
ClientEncoded ==
    /\ kind = "client"
    /\ op \in {"create", "read", "import", "update"}
    /\ pc = "done"
    /\ result = OkResult
    /\ id # ""

AllStrings(m) == \A i \in 1..Len(m) : m[i][2].t = "string"

\* C18: after an encode of a remote OAuth2 client, metadata and
\* metadata_json are not both set; a remote metadata map of strings only is
\* in metadata, with metadata_json cleared; a map with a value that is no
\* string is in metadata_json, as a JSON text of the whole map, with metadata
\* cleared.
C18_MetadataOneForm ==
    ClientEncoded
    => /\ ~(attrs.metadata # <<>> /\ attrs.metadata_json # <<>>)
       /\ payload.metadata.t = "map[string]interface{}"
          => IF AllStrings(payload.metadata.m)
             THEN attrs.metadata = payload.metadata.m /\ attrs.metadata_json = <<>>
             ELSE /\ attrs.metadata = <<>>
                  /\ attrs.metadata_json # <<>>
                  /\ UnmarshalMap(attrs.metadata_json).err = ""
                  /\ UnmarshalMap(attrs.metadata_json).m = payload.metadata.m

C18_Witness ==
    /\ ClientEncoded
    /\ op = "update"
    /\ preAttrs.metadata # <<>>
    /\ payload.metadata = Unmarshal(TxtNested).v
    /\ attrs.metadata = <<>>
    /\ attrs.metadata_json = TxtNested

\* C19: a create or update entered with metadata = m, a map of strings, and
\* no metadata_json, whose response returns the metadata the request carried,
\* ends with metadata = m and no metadata_json.
C19_MetadataRoundTrip ==
    (ClientEncoded /\ op \in {"create", "update"}
        /\ preAttrs.metadata_json = <<>>
        /\ payload.metadata = phases[1].req.metadata)
    => /\ attrs.metadata = preAttrs.metadata
       /\ attrs.metadata_json = <<>>

C19_Witness ==
    /\ ClientEncoded
    /\ op = "create"
    /\ preAttrs.metadata_json = <<>>
    /\ Len(preAttrs.metadata) = 2
    /\ payload.metadata = phases[1].req.metadata
    /\ attrs.metadata = preAttrs.metadata

\* the text does not decode into a metadata map
Undecodable(text) ==
    ~Unmarshal(text).ok \/ Unmarshal(text).v.t # "map[string]interface{}"

\* C20: a create or update whose configuration has a metadata_json that does
\* not decode into a map (malformed, or no object) ends with the validation
\* error and makes no remote call.
C20_BadMetadataJSONRejected ==
    (kind = "client" /\ op \in {"create", "update"} /\ pc # "idle"
        /\ preAttrs.metadata_json # <<>> /\ Undecodable(preAttrs.metadata_json))
    => /\ phases = <<>>
       /\ pc = "done"
       /\ result = ErrResult(ValidationErr)

\* C26: with a policy configured, an Update of an OAuth2 client that is
\* retrying after a 429 still holds, for its next attempt, the client it
\* decoded from the attributes and sent with the first attempt; the Update
\* does not abort.
C26_UpdateRetriesSameBody ==
    (kind = "client" /\ op = "update" /\ backOff.set /\ calls >= 1
        /\ lastErr.http = StatusTooManyRequests /\ wstop = "")
    => /\ oAuthClient = <<phases[1].req>>
       /\ result.kind # "panic"

\* C27: with a policy configured, a wrapper call that stopped on an error it
\* classifies as permanent returns the very error fn produced, which is what
\* the wrapper returns without a policy; a Read of an OAuth2 client then ends
\* as it does without a policy: identifier cleared and no error on a 401
\* model, the error otherwise.
C27_PermanentErrorUnwrapped ==
    (backOff.set /\ pc = "done" /\ wstop = "permanent")
    => /\ wret = lastErr
       /\ wret = retryThrottledHydraAction(NoPolicy, boInterval, boElapsed,
                     [ok |-> FALSE, http |-> lastErr.http, code |-> lastErr.code,
                      body |-> NoBody], calls, 0).ret
       /\ (kind = "client" /\ op = "read")
          => /\ result = readOAuth2ClientResource([id |-> preId, attrs |-> preAttrs],
                                                  lastErr, NoBody).result
             /\ IF lastErr.code = StatusUnauthorized
                THEN id = "" /\ result = OkResult
                ELSE id = preId /\ result = ErrResult(lastErr)

C27_Witness ==
    /\ backOff.set
    /\ pc = "done"
    /\ wstop = "permanent"
    /\ kind = "client"
    /\ op = "read"
    /\ calls = 2
    /\ firstErr.http = StatusTooManyRequests
    /\ lastErr.code = StatusUnauthorized
    /\ wret = lastErr
    /\ preId # ""
    /\ id = ""
    /\ result = OkResult

\* C28: an OAuth2 client handler whose remote call succeeded ends with a
\* result, the attributes set or an error returned, whatever the jwks member
\* of the response is; it does not abort once the identifier has been set.
C28_EncodeAlwaysCompletes ==
    (kind = "client" /\ op \in {"create", "read", "update"} /\ pc = "done"
        /\ calls >= 1 /\ lastErr = NoErr)
    => result.kind \in {"ok", "err"}

\* C21: dataToClient sets an optional field of the request exactly when the
\* attribute is set in the configuration, to the value set: an attribute
\* that is not set leaves the field nil, and one set to the zero value of
\* its type (skip_consent = false, client_name = "") leaves a field that is
\* not nil.
C21_OptionalOnlyIfPresent ==
    (fun = "decode" /\ ret # <<>>)
    => /\ ret[1].client_name = arg.client_name
       /\ ret[1].skip_consent = arg.skip_consent
       /\ (ret[1].owner # Nil) <=> (arg.owner # <<>>)
       /\ (ret[1].client_secret # Nil) <=> (arg.client_secret # <<>>)

\* C22: for duration strings a and b that both parse,
\* diffSuppressMatchingDurationStrings(a, b) is true exactly when a and b
\* denote the same duration ("60m" and "1h" do, "30m" and "1h" do not), and
\* for any two strings it equals diffSuppressMatchingDurationStrings(b, a).
C22_DurationsComparedByValue ==
    (fun = "diff" /\ ret # <<>>)
    => /\ (ParseDuration(arg[1]).ok /\ ParseDuration(arg[2]).ok)
          => (ret[1] <=> (Millis(ParseDuration(arg[1])) = Millis(ParseDuration(arg[2]))
                          /\ ParseDuration(arg[1]).d.ns = ParseDuration(arg[2]).d.ns))
       /\ ret[1] = diffSuppressMatchingDurationStrings(arg[2], arg[1])
       /\ arg = <<(<<"6", "0", "m">>), (<<"1", "h">>)>> => ret[1]
       /\ arg = <<(<<"3", "0", "m">>), (<<"1", "h">>)>> => ~ret[1]
       /\ arg = <<(<<"-", "1", "h">>), (<<"1", "h">>)>> => ~ret[1]

C22_Witness ==
    /\ fun = "diff"
    /\ arg = <<(<<"1", ".", "5", "h">>), (<<"9", "0", "m">>)>>
    /\ ret = <<TRUE>>

\* C25: for every list of inline keys, dataFromJWKS of dataToJWKS of the list
\* is the list: same length, same order, every member of every key the same,
\* an optional member that is not given staying empty.
C25_JwksRoundTrip ==
    (fun = "jwks" /\ Len(ret) = 2)
    => /\ ret[2] = arg
       /\ Len(ret[1]) = Len(arg)
       /\ \A i \in 1..Len(arg) :
              \A f \in JwkOptional : (arg[i][f] = "") <=> (ret[1][i][f] = <<>>)

C25_Witness ==
    /\ fun = "jwks"
    /\ Len(ret) = 2
    /\ Len(arg) = 2
    /\ arg[1].kid = "k2"
    /\ arg[2].kid = "k1"
    /\ arg[1].x5c = <<"c1", "c2">>
    /\ arg[1].crv = "crv"
    /\ arg[1].e = ""
    /\ arg[2].e = "e"
    /\ ret[2] = arg

\* C30: dataFromClient of a client whose scope is the join of a scope list s
\* (non-empty strings without spaces) stores s as scopes; of a client whose
\* scope is the empty string, the empty list; dataToClient of an empty
\* scopes list leaves the scope of the request nil.
C30_ScopesRoundTrip ==
    /\ (fun = "encode" /\ ret # <<>>)
       => /\ \A s \in ScopeLists :
                 arg.scope = <<Join(s, " ")>> => ret[1].scopes = s
          /\ arg.scope = <<(<<>>)>> => ret[1].scopes = <<>>
    /\ (fun = "decode" /\ ret # <<>> /\ Get(arg.scopes, <<>>) = <<>>)
       => ret[1].scope = <<>>

\* the authentication methods of the configuration
Methods == {m \in {"basic", "http_header", "oauth2"} : auth[m] # <<>>}

\* the pooled transport with the TLS client certificate of the configuration
BaseTransport ==
    [type |-> "http.Transport", cred |-> <<>>,
     TLSClientConfig |->
         IF auth.tls = <<>> THEN <<>>
         ELSE <<[Certificates |-> <<auth.tls[1].certificate>>,
                 InsecureSkipVerify |-> auth.tls[1].insecure_skip_verify]>>]

\* C23: the transport of the client configureHTTPClient returns is the bare
\* pooled transport when no authentication method is configured and exactly
\* one decorator, of the method configured, directly around the pooled
\* transport when one is; with or without a decorator the pooled transport
\* holds the TLS client certificate when a tls block is configured.
C23_OneDecoratorOrNone ==
    httpClient # <<>>
    => LET t == httpClient[1].Transport
       IN /\ t[Len(t)] = BaseTransport
          /\ Methods = {} => t = <<BaseTransport>>
          /\ Methods = {"basic"}
             => t = <<Layer("BasicAuthTransport",
                            <<auth.basic[1].username, auth.basic[1].password>>),
                      BaseTransport>>
          /\ Methods = {"http_header"}
             => t = <<Layer("HttpHeaderAuthTransport",
                            <<auth.http_header[1].name, auth.http_header[1].value>>),
                      BaseTransport>>
          /\ Methods = {"oauth2"}
             => /\ Len(t) = 2
                /\ t[1].type = "oauth2.Transport"
                /\ t[2] = BaseTransport

C23_Witness ==
    /\ httpClient # <<>>
    /\ Methods = {"http_header"}
    /\ auth.tls # <<>>
    /\ Len(wire) = 1
    /\ wire[1].check = "http_header"
    /\ wire[1].req.header = <<"My-Header", "t0ps3cr3t">>
    /\ wire[1].req.authorization = <<>>
    /\ wire[1].req.certificate = <<"crt1">>
    /\ wire[1].status = 200

\* C24: a read of the JWKS data source that the remote answers with 401
\* ends with an error reporting the 401 and no keys; with a basic block as
\* the method in force every request carries its credentials, and when they
\* are the ones the remote asks for the read ends without error, with the
\* keys of the remote; with other credentials the remote answers 401.
C24_DataSource401Fails ==
    /\ wire # <<>>
       => LET w == wire[Len(wire)]
          IN /\ id = w.req.set
             /\ w.status = StatusUnauthorized
                => /\ result.kind = "err"
                   /\ result.err.what = "api"
                   /\ result.err.http = StatusUnauthorized
                   /\ attrs.key = <<>>
             /\ w.status = 200 => result = OkResult /\ attrs.key = Keys(w.keys)
    /\ (httpClient # <<>> /\ httpClient[1].Transport[1].type = "BasicAuthTransport")
       => \A i \in 1..Len(wire) :
              /\ wire[i].req.authorization
                     = <<"Basic", auth.basic[1].username, auth.basic[1].password>>
              /\ wire[i].check = "basic"
                 => wire[i].status = (IF auth.basic[1].username = "johndoe"
                                          /\ auth.basic[1].password = "p455w0rd"
                                      THEN 200 ELSE StatusUnauthorized)

C24_Witness ==
    /\ Len(wire) = 2
    /\ Methods = {"basic"}
    /\ auth.basic[1].username = "invalid"
    /\ wire[1].check = "open"
    /\ wire[1].status = 200
    /\ wire[2].check = "basic"
    /\ wire[2].status = StatusUnauthorized
    /\ result.kind = "err"
    /\ result.err.http = StatusUnauthorized

C24_WitnessAccepted ==
    /\ Len(wire) = 2
    /\ Methods = {"basic"}
    /\ \A i \in 1..2 : wire[i].check = "basic" /\ wire[i].status = 200
    /\ wire[1].req.set # wire[2].req.set
    /\ result = OkResult
    /\ attrs.key = <<dataFromJWK(Jwk1), dataFromJWK(Jwk2)>>

\* C29: with two or three of basic, http_header and oauth2 configured, the
\* client's transport is one decorator directly around the pooled transport:
\* oauth2's when oauth2 is configured, else http_header's; and
\* configureHTTPClient returns an error only for a tls block whose key is
\* not the certificate's.
C29_LastMethodWins ==
    /\ (httpClient # <<>> /\ Cardinality(Methods) >= 2)
       => LET t == httpClient[1].Transport
          IN /\ Len(t) = 2
             /\ t[2] = BaseTransport
             /\ t[1].type = (IF auth.oauth2 # <<>> THEN "oauth2.Transport"
                             ELSE "HttpHeaderAuthTransport")
             /\ auth.oauth2 = <<>>
                => t[1].cred = <<auth.http_header[1].name, auth.http_header[1].value>>
    /\ (httpClient = <<>> /\ result.kind = "err")
       => /\ auth.tls # <<>>
          /\ ~X509KeyPair(auth.tls[1].certificate, auth.tls[1].key).ok
          /\ result = ErrResult(KeyPairErr)

C29_Witness ==
    /\ httpClient # <<>>
    /\ Methods = {"basic", "http_header", "oauth2"}
    /\ Len(httpClient[1].Transport) = 2
    /\ Len(wire) = 1
    /\ wire[1].req.authorization = <<"Bearer", "t1">>
    /\ wire[1].req.header = <<>>
    /\ wire[1].check = "basic"
    /\ wire[1].status = StatusUnauthorized

====
